---- MODULE Spec2Model ----
(***************************************************************************)
(* A model of evernote-notion-compare: the identifier normalisation, the   *)
(* title extractors, the cursor pagination loops of the Notion listing     *)
(* scripts, the ENEX title report, the exit status of the commands, and    *)
(* the two handlers of the local Evernote OAuth relay.                     *)
(*                                                                         *)
(* Strings of the program are sequences of one-character strings, so that  *)
(* strip(), lower(), concatenation and slicing are computed, not assumed.  *)
(***************************************************************************)
EXTENDS Integers, Sequences, FiniteSets, TLC

VARIABLES
    \* identifier normalisation (notion_list_records.py 16-30)
    uuRaw,      \* the raw identifier handed to the functions
    uuPc,       \* "start" | "called"
    uuNorm,     \* outcome of normalize_uuid(raw)
    uuTwice,    \* outcome of normalize_uuid(normalize_uuid(raw)), once computed
    uuUrl,      \* outcome of notion_url_from_uuid(raw)
    uuUrlNorm,  \* outcome of notion_url_from_uuid(normalize_uuid(raw)) (main, line 344)
    \* title extraction
    exItem,     \* the JSON object handed to an extractor
    exFn,       \* the extractor applied, "none" before
    exRes,      \* its outcome
    \* the listing commands (notion_list_records.py, notion_all_shared.py)
    pgArgs,     \* the command line
    pgToken,    \* NOTION_TOKEN is set in the environment
    pgSdk,      \* query_data_source_pages found data_sources.query on the client
    pgInput,    \* the line the user types at the database-name prompt
    pgFn,       \* the function running, "main" at the start
    pgPc,       \* "start" | "loop" | "returned" | "exit"
    pgType,     \* object_type of list_visible_objects
    pgDbName,   \* db_name of main and find_data_source_id_by_name
    pgCursor,   \* cursor
    pgAcc,      \* results (query_data_source_pages), matches (find_...)
    pgCount,    \* the counters of the listing loops
    pgOut,      \* the lines printed on stdout
    pgRet,      \* what the function, and at "exit" the command, returned or raised
    pgLog,      \* history: the remote calls of the running loop, in order
    pgServed,   \* history: the items of the pages served to the running loop
    \* the OAuth relay (evernote_oath_local.py)
    oaEnv,      \* the three EVERNOTE_* variables are set
    oaFile,     \* the token file at TOKEN_PATH
    oaReq,      \* the requests received, in order of arrival, each with its handler's state
    oaIssued,   \* the temporary credentials the remote service has issued, 1..oaIssued
    oaConsumed, \* those it has exchanged for an access credential
    oaWriter,   \* history: the request whose handler wrote the file last, 0 if none
    \* the ENEX report (enex_extract_note_info.py)
    enArgs,     \* the command line: --print, --fail-on-empty-title
    enFile,     \* the file named on the command line
    enPc,       \* "start" | "parsed" | "exit"
    enTitles,   \* titles, once parse_enex_titles returned
    enOut,      \* the lines printed on stdout
    enStatus    \* the exit status of the process, -1 while it runs

uuVars == <<uuRaw, uuPc, uuNorm, uuTwice, uuUrl, uuUrlNorm>>
exVars == <<exItem, exFn, exRes>>

pgVars == <<pgArgs, pgToken, pgSdk, pgInput, pgFn, pgPc, pgType, pgDbName, pgCursor,
           pgAcc, pgCount, pgOut, pgRet, pgLog, pgServed>>

oaVars == <<oaEnv, oaFile, oaReq, oaIssued, oaConsumed, oaWriter>>

enVars == <<enArgs, enFile, enPc, enTitles, enOut, enStatus>>

vars == <<uuVars, exVars, pgVars, oaVars, enVars>>

\* what the actions of one component leave alone
uuOthers == <<exVars, pgVars, oaVars, enVars>>
exOthers == <<uuVars, pgVars, oaVars, enVars>>
pgOthers == <<uuVars, exVars, oaVars, enVars>>
oaOthers == <<uuVars, exVars, pgVars, enVars>>
enOthers == <<uuVars, exVars, pgVars, oaVars>>

(***************************************************************************)
(* Python string primitives                                                *)
(***************************************************************************)

\* str.strip() strips these from both ends.
Whitespace == {" ", "\t", "\n"}

RECURSIVE LStrip(_)
LStrip(s) ==
    IF s = <<>> THEN <<>>
    ELSE IF Head(s) \in Whitespace THEN LStrip(Tail(s)) ELSE s

RECURSIVE RStrip(_)
RStrip(s) ==
    IF s = <<>> THEN <<>>
    ELSE IF s[Len(s)] \in Whitespace THEN RStrip(SubSeq(s, 1, Len(s) - 1)) ELSE s

\* str.strip()
Strip(s) == RStrip(LStrip(s))

\* str.lower(), one character
LowerChar(c) ==
    CASE c = "A" -> "a" [] c = "B" -> "b" [] c = "C" -> "c"
      [] c = "D" -> "d" [] c = "E" -> "e" [] c = "F" -> "f"
      [] c = "G" -> "g" [] c = "P" -> "p"
      [] OTHER -> c

\* str.lower()
Lower(s) == [i \in 1..Len(s) |-> LowerChar(s[i])]

\* the character class [0-9a-f] of the regular expression
HexLower == {"0", "1", "2", "3", "4", "5", "6", "7", "8", "9",
             "a", "b", "c", "d", "e", "f"}

\* re.sub(r"[^0-9a-f]", "", s)
SubNonHex(s) == SelectSeq(s, LAMBDA c : c \in HexLower)

\* an outcome: a returned value, or a raised exception
Returned(v) == [raised |-> FALSE, exc |-> "", val |-> v]
Raised(e) == [raised |-> TRUE, exc |-> e, val |-> <<>>]
NotCalled == [raised |-> FALSE, exc |-> "not called", val |-> <<>>]

(***************************************************************************)
(* Identifier normalisation                                                *)
(***************************************************************************)

\* the number of hexadecimal characters an identifier must hold
UuidHexLen == 32

\* a buggy normalize_uuid: the case is not folded before the filter
normalize_uuid_nofold(raw) ==
    LET s == SelectSeq(Strip(raw), LAMBDA c : LowerChar(c) \in HexLower)
    IN  IF Len(s) # UuidHexLen
        THEN Raised("ValueError")
        ELSE Returned(SubSeq(s, 1, 8) \o <<"-">> \o SubSeq(s, 9, 12) \o <<"-">>
                      \o SubSeq(s, 13, 16) \o <<"-">> \o SubSeq(s, 17, 20)
                      \o <<"-">> \o SubSeq(s, 21, 32))

normalize_uuid(raw) ==
    LET s == SubNonHex(Lower(Strip(raw)))
    IN  IF Len(s) # UuidHexLen
        THEN Raised("ValueError")
        ELSE Returned(SubSeq(s, 1, 8) \o <<"-">> \o SubSeq(s, 9, 12) \o <<"-">>
                      \o SubSeq(s, 13, 16) \o <<"-">> \o SubSeq(s, 17, 20)
                      \o <<"-">> \o SubSeq(s, 21, 32))

UrlPrefix == <<"https://www.notion.so/">>

\* a buggy notion_url_from_uuid: only too short an identifier is refused
notion_url_from_uuid_atleast(raw) ==
    LET s == SubNonHex(Lower(Strip(raw)))
    IN  IF Len(s) < UuidHexLen
        THEN Raised("ValueError")
        ELSE Returned(UrlPrefix \o s)

notion_url_from_uuid(raw) ==
    LET s == SubNonHex(Lower(Strip(raw)))
    IN  IF Len(s) # UuidHexLen
        THEN Raised("ValueError")
        ELSE Returned(UrlPrefix \o s)

\* ---- the identifiers tried ----

\* how far from 32 the number of hexadecimal characters of an input may lie
LenSlack == 1
\* separators are inserted after every k-th character, k up to this
MaxGap == 2

Digits == <<"0", "1", "2", "3", "4", "5", "6", "7", "8", "9",
            "a", "b", "c", "d", "e", "f">>

UpperChar(c) ==
    CASE c = "a" -> "A" [] c = "b" -> "B" [] c = "c" -> "C"
      [] c = "d" -> "D" [] c = "e" -> "E" [] c = "f" -> "F"
      [] OTHER -> c

\* n hexadecimal characters, all 16 digits in turn
HexBody(n, step) == [i \in 1..n |-> Digits[((i * step) % 16) + 1]]

Casing(s, mode) ==
    CASE mode = "lower" -> s
      [] mode = "upper" -> [i \in 1..Len(s) |-> UpperChar(s[i])]
      [] OTHER -> [i \in 1..Len(s) |-> IF i % 2 = 1 THEN UpperChar(s[i]) ELSE s[i]]

\* s with sep after every gap-th character
RECURSIVE Separate(_, _, _)
Separate(s, sep, gap) ==
    IF Len(s) <= gap THEN s
    ELSE SubSeq(s, 1, gap) \o <<sep>> \o Separate(SubSeq(s, gap + 1, Len(s)), sep, gap)

\* s with hyphens after characters 8, 12, 16 and 20, where it has them
Hyphenated(s) ==
    LET cut(a, b) == SubSeq(s, a, IF b < Len(s) THEN b ELSE Len(s))
    IN  cut(1, 8) \o <<"-">> \o cut(9, 12) \o <<"-">> \o cut(13, 16) \o <<"-">>
        \o cut(17, 20) \o <<"-">> \o cut(21, Len(s))

Separators == {"-", " ", ":", "g", "G", "{"}

Styled(s) ==
    {s, Hyphenated(s)}
    \cup {Separate(s, sep, gap) : sep \in Separators, gap \in 1..MaxGap}

RawIds ==
    LET lens == {0} \cup ((UuidHexLen - LenSlack)..(UuidHexLen + LenSlack))
        bodies == {Casing(HexBody(n, step), mode) :
                     n \in lens, step \in {1, 7}, mode \in {"lower", "upper", "mixed"}}
        styled == UNION {Styled(b) : b \in bodies}
    IN  styled \cup {<<" ", "\t">> \o s \o <<"\n">> : s \in styled}

\* the components a specification does not run stay as they are here
uuIdle ==
    /\ uuRaw = <<>>
    /\ uuPc = "idle"
    /\ uuNorm = NotCalled
    /\ uuTwice = NotCalled
    /\ uuUrl = NotCalled
    /\ uuUrlNorm = NotCalled

exIdle ==
    /\ exItem = <<>>
    /\ exFn = "idle"
    /\ exRes = NotCalled

oaIdle ==
    /\ oaEnv = FALSE
    /\ oaFile = <<>>
    /\ oaReq = <<>>
    /\ oaIssued = 0
    /\ oaConsumed = {}
    /\ oaWriter = 0

enIdle ==
    /\ enArgs = <<>>
    /\ enFile = <<>>
    /\ enPc = "idle"
    /\ enTitles = <<>>
    /\ enOut = <<>>
    /\ enStatus = -1

pgIdle ==
    /\ pgArgs = <<>>
    /\ pgToken = FALSE
    /\ pgSdk = FALSE
    /\ pgInput = <<>>
    /\ pgFn = "idle"
    /\ pgPc = "idle"
    /\ pgType = <<>>
    /\ pgDbName = <<>>
    /\ pgCursor = <<>>
    /\ pgAcc = <<>>
    /\ pgCount = <<>>
    /\ pgOut = <<>>
    /\ pgRet = NotCalled
    /\ pgLog = <<>>
    /\ pgServed = <<>>

uuInit ==
    /\ uuRaw \in RawIds
    /\ uuPc = "start"
    /\ uuNorm = NotCalled
    /\ uuTwice = NotCalled
    /\ uuUrl = NotCalled
    /\ uuUrlNorm = NotCalled

\* normalize_uuid(raw) and notion_url_from_uuid(raw)
CallOnRaw ==
    /\ uuPc = "start"
    /\ uuPc' = "called"
    /\ uuNorm' = normalize_uuid(uuRaw)
    /\ uuUrl' = notion_url_from_uuid(uuRaw)
    /\ UNCHANGED <<uuRaw, uuTwice, uuUrlNorm, uuOthers>>

\* normalize_uuid applied to its own result
CallNormalizeAgain ==
    /\ uuPc = "called"
    /\ ~uuNorm.raised
    /\ uuTwice = NotCalled
    /\ uuTwice' = normalize_uuid(uuNorm.val)
    /\ UNCHANGED <<uuRaw, uuPc, uuNorm, uuUrl, uuUrlNorm, uuOthers>>

\* main, lines 330 and 344: the URL of the normalised identifier
CallUrlOfNormalized ==
    /\ uuPc = "called"
    /\ ~uuNorm.raised
    /\ uuUrlNorm = NotCalled
    /\ uuUrlNorm' = notion_url_from_uuid(uuNorm.val)
    /\ UNCHANGED <<uuRaw, uuPc, uuNorm, uuUrl, uuTwice, uuOthers>>

uuNext == CallOnRaw \/ CallNormalizeAgain \/ CallUrlOfNormalized

InitUuid == uuInit /\ exIdle /\ pgIdle /\ oaIdle /\ enIdle

SpecUuid == InitUuid /\ [][uuNext]_vars

\* ---- what the claims say, stated without the code's operators ----

IsHexChar(c) ==
    c \in {"0", "1", "2", "3", "4", "5", "6", "7", "8", "9",
           "a", "b", "c", "d", "e", "f", "A", "B", "C", "D", "E", "F"}

\* the hexadecimal characters of an identifier, in order, case kept
RECURSIVE HexCharsOf(_)
HexCharsOf(s) ==
    IF s = <<>> THEN <<>>
    ELSE (IF IsHexChar(Head(s)) THEN <<Head(s)>> ELSE <<>>) \o HexCharsOf(Tail(s))

HyphenAt == {9, 14, 19, 24}

\* v is the 8-4-4-4-12 form of the 32 characters h
IsCanonicalOf(v, h) ==
    /\ Len(v) = 36
    /\ \A i \in HyphenAt : v[i] = "-"
    /\ \A i \in 1..32 :
         \* the i-th character stands after the hyphens of the groups before it
         LET j == i + (IF i > 8 THEN 1 ELSE 0) + (IF i > 12 THEN 1 ELSE 0)
                    + (IF i > 16 THEN 1 ELSE 0) + (IF i > 20 THEN 1 ELSE 0)
         IN  /\ v[j] \in HexLower
             /\ UpperChar(v[j]) = UpperChar(h[i])

\* C9: an identifier with exactly 32 hexadecimal characters (separators and
\* case ignored) normalises to those characters, lowercase, in order,
\* hyphenated 8-4-4-4-12, and normalising the result again changes nothing.
C9_NormalizeCanonicalIdempotent ==
    (uuPc = "called" /\ Len(HexCharsOf(uuRaw)) = 32) =>
        /\ ~uuNorm.raised
        /\ IsCanonicalOf(uuNorm.val, HexCharsOf(uuRaw))
        /\ (uuTwice # NotCalled => uuTwice = uuNorm)

\* a mixed-case, separated 32-digit identifier has been normalised twice
C9_Witness ==
    /\ uuPc = "called"
    /\ Len(HexCharsOf(uuRaw)) = 32
    /\ uuRaw # Lower(uuRaw)
    /\ Len(uuRaw) > 36
    /\ uuTwice # NotCalled
    /\ uuTwice = uuNorm

\* C10: an identifier whose count of hexadecimal characters is not 32 makes
\* normalize_uuid and notion_url_from_uuid raise a validation error; neither
\* returns a value.
C10_WrongLengthRaises ==
    (uuPc = "called" /\ Len(HexCharsOf(uuRaw)) # 32) =>
        /\ uuNorm = Raised("ValueError")
        /\ uuUrl = Raised("ValueError")

\* an over-long identifier has been refused by both functions
C10_Witness ==
    /\ uuPc = "called"
    /\ Len(HexCharsOf(uuRaw)) > 32
    /\ uuNorm.raised
    /\ uuUrl.raised

(***************************************************************************)
(* JSON values                                                             *)
(*                                                                         *)
(* One record shape for every value, so that any two compare: t is the     *)
(* type, s the characters of a string, n a number (1 for true, 0 for       *)
(* false), kids the members of a list (keys "") or of an object, in the    *)
(* order the parser met them, which is the order dict.values() iterates.   *)
(***************************************************************************)

JNull == [t |-> "null", s |-> <<>>, n |-> 0, kids |-> <<>>]
JStr(str) == [t |-> "str", s |-> str, n |-> 0, kids |-> <<>>]
JNum(num) == [t |-> "num", s |-> <<>>, n |-> num, kids |-> <<>>]
JBool(b) == [t |-> "bool", s |-> <<>>, n |-> IF b THEN 1 ELSE 0, kids |-> <<>>]
JList(l) == [t |-> "list", s |-> <<>>, n |-> 0,
             kids |-> [i \in 1..Len(l) |-> [k |-> "", v |-> l[i]]]]
JObj(members) == [t |-> "obj", s |-> <<>>, n |-> 0, kids |-> members]

\* a key that an object under construction does not carry
Absent == [t |-> "absent", s |-> <<>>, n |-> 0, kids |-> <<>>]

\* the object with these members, those that are Absent left out
MkObj(members) == JObj(SelectSeq(members, LAMBDA m : m.v # Absent))

Has(o, key) == \E i \in 1..Len(o.kids) : o.kids[i].k = key

\* dict.get(key, default)
Get(o, key, default) ==
    IF Has(o, key)
    THEN o.kids[CHOOSE i \in 1..Len(o.kids) : o.kids[i].k = key].v
    ELSE default

\* bool(v): what `not v`, `v or w` and `if v` test
Truthy(v) ==
    CASE v.t = "null" -> FALSE
      [] v.t = "str" -> v.s # <<>>
      [] v.t \in {"num", "bool"} -> v.n # 0
      [] OTHER -> v.kids # <<>>

\* the values of a list, in order
Elems(v) == [i \in 1..Len(v.kids) |-> v.kids[i].v]

RECURSIVE Concat(_)
Concat(ss) == IF ss = <<>> THEN <<>> ELSE Head(ss) \o Concat(Tail(ss))

T_TITLE == <<"t", "i", "t", "l", "e">>
T_PAGE == <<"p", "a", "g", "e">>
T_DATA_SOURCE == <<"d", "a", "t", "a", "_", "s", "o", "u", "r", "c", "e">>
T_DATABASE == <<"d", "a", "t", "a", "b", "a", "s", "e">>

(***************************************************************************)
(* Title extractors                                                        *)
(***************************************************************************)

\* "".join(x.get("plain_text", "") for x in xs): join first drains the
\* generator, so a fragment without .get raises before any non-string is
\* seen by join.
JoinPlainText(xs) ==
    IF \E i \in 1..Len(xs) : xs[i].t # "obj"
    THEN Raised("AttributeError")
    ELSE LET texts == [i \in 1..Len(xs) |-> Get(xs[i], "plain_text", JStr(<<>>))]
         IN  IF \E i \in 1..Len(texts) : texts[i].t # "str"
             THEN Raised("TypeError")
             ELSE Returned(JStr(Concat([i \in 1..Len(texts) |-> texts[i].s])))

\* outcome o with its string stripped
Stripped(o) == IF o.raised THEN o ELSE Returned(JStr(Strip(o.val.s)))

\* what `for x in v` iterates: the elements of a list, the characters of a
\* string, the keys of a dict; anything else is not iterable
IterOf(v) ==
    CASE v.t = "list" -> Returned(Elems(v))
      [] v.t = "str" -> Returned([i \in 1..Len(v.s) |-> JStr(<<v.s[i]>>)])
      [] v.t = "obj" -> Returned([i \in 1..Len(v.kids) |-> JStr(<<v.kids[i].k>>)])
      [] OTHER -> Raised("TypeError")

\* _rt_to_text
rt_to_text(rt) ==
    IF rt.t = "list" THEN Stripped(JoinPlainText(Elems(rt))) ELSE Returned(JStr(<<>>))

\* title_from_rich_text_array: the same test and join as _rt_to_text
title_from_rich_text_array(arr) ==
    IF arr.t = "list" THEN Stripped(JoinPlainText(Elems(arr))) ELSE Returned(JStr(<<>>))

\* `for prop in props.values(): if prop.get("type") == "title": return ...`:
\* the property the loop returns on, or NotCalled when it ends without
\* returning.  A value that is no dict raises when the loop reaches it.
TitlePropScan(props) ==
    LET vs == Elems(props)
        stops == {i \in 1..Len(vs) :
                    \/ vs[i].t # "obj"
                    \/ Get(vs[i], "type", JNull) = JStr(T_TITLE)}
    IN  IF stops = {} THEN NotCalled
        ELSE LET i == CHOOSE j \in stops : \A m \in stops : j <= m
             IN  IF vs[i].t # "obj" THEN Raised("AttributeError") ELSE Returned(vs[i])

\* extract_page_title
extract_page_title(page) ==
    LET given == Get(page, "properties", JObj(<<>>))
        props == IF Truthy(given) THEN given ELSE JObj(<<>>)
    IN  IF props.t # "obj" THEN Raised("AttributeError")
        ELSE LET hit == TitlePropScan(props)
             IN  IF hit.raised THEN hit
                 ELSE IF hit.exc # NotCalled.exc THEN rt_to_text(Get(hit.val, "title", JNull))
                 ELSE rt_to_text(Get(page, "title", JNull))

\* extract_data_source_title
extract_data_source_title(ds) ==
    LET t == rt_to_text(Get(ds, "title", JNull))
        name == Get(ds, "name", JNull)
    IN  IF t.raised THEN t
        ELSE IF Truthy(t.val) THEN t
        ELSE IF name.t = "str" /\ Strip(name.s) # <<>> THEN Returned(JStr(Strip(name.s)))
        ELSE Returned(JStr(<<>>))

\* _data_source_title_from_search_obj: line for line extract_data_source_title
data_source_title_from_search_obj(obj) ==
    LET t == rt_to_text(Get(obj, "title", JNull))
        name == Get(obj, "name", JNull)
    IN  IF t.raised THEN t
        ELSE IF Truthy(t.val) THEN t
        ELSE IF name.t = "str" /\ Strip(name.s) # <<>> THEN Returned(JStr(Strip(name.s)))
        ELSE Returned(JStr(<<>>))

\* _ds_title_from_obj
ds_title_from_obj(obj) ==
    LET t == rt_to_text(Get(obj, "title", JNull))
        name == Get(obj, "name", JNull)
    IN  IF t.raised THEN t
        ELSE IF Truthy(t.val) THEN t
        ELSE IF name.t = "str" /\ Strip(name.s) # <<>> THEN Returned(JStr(Strip(name.s)))
        ELSE Returned(JStr(<<>>))

\* extract_title_from_page
extract_title_from_page(page) ==
    LET props == Get(page, "properties", JObj(<<>>))
        join(prop) ==
            LET it == IterOf(Get(prop, "title", JList(<<>>)))
            IN  IF it.raised THEN it ELSE Stripped(JoinPlainText(it.val))
    IN  IF props.t # "obj" THEN Raised("AttributeError")
        ELSE LET hit == TitlePropScan(props)
             IN  IF hit.raised THEN hit
                 ELSE IF hit.exc # NotCalled.exc THEN join(hit.val)
                 ELSE Returned(JStr(<<>>))

\* _page_title_from_search_obj
page_title_from_search_obj(obj) ==
    LET t == rt_to_text(Get(obj, "title", JNull))
        given == Get(obj, "properties", JObj(<<>>))
        props == IF Truthy(given) THEN given ELSE JObj(<<>>)
    IN  IF t.raised THEN t
        ELSE IF Truthy(t.val) THEN t
        ELSE IF props.t # "obj" THEN Raised("AttributeError")
        ELSE LET hit == TitlePropScan(props)
             IN  IF hit.raised THEN hit
                 ELSE IF hit.exc # NotCalled.exc THEN rt_to_text(Get(hit.val, "title", JNull))
                 ELSE Returned(JStr(<<>>))

\* object_display_name
object_display_name(obj) ==
    LET kind == Get(obj, "object", JNull)
        t == title_from_rich_text_array(Get(obj, "title", JNull))
        name == Get(obj, "name", JNull)
        id == Get(obj, "id", JStr(<<>>))
    IN  IF kind = JStr(T_PAGE)
        THEN IF t.raised THEN t
             ELSE IF Truthy(t.val) THEN t ELSE Returned(id)
        ELSE IF kind = JStr(T_DATA_SOURCE)
        THEN IF t.raised THEN t
             ELSE IF Truthy(t.val) THEN t
             ELSE IF name.t = "str" THEN Returned(JStr(Strip(name.s)))
             ELSE Returned(id)
        ELSE Returned(id)

\* the title computed in the loop of list_all_data_sources
\* (notion_list_records.py): title_parts = item.get("title") or []
list_all_item_title(item) ==
    LET given == Get(item, "title", JNull)
        title_parts == IF Truthy(given) THEN given ELSE JList(<<>>)
        it == IterOf(title_parts)
    IN  IF it.raised THEN it ELSE Stripped(JoinPlainText(it.val))

\* ---- the objects tried ----

Member(key, value) == [k |-> key, v |-> value]
Frag(text) == JObj(<<Member("plain_text", JStr(text))>>)
TitleProp(rt) == JObj(<<Member("id", JStr(<<"t">>)), Member("type", JStr(T_TITLE)),
                       Member("title", rt)>>)
OtherProp == JObj(<<Member("type", JStr(<<"d", "a", "t", "e">>)), Member("date", JNull)>>)

TitleOpts ==
    { Absent, JNull, JList(<<>>),
      JList(<<Frag(<<"A">>)>>),
      JList(<<Frag(<<" ", "A", " ">>), Frag(<<"B", " ">>)>>),
      JList(<<Frag(<<" ">>)>>),
      JStr(<<"A">>),                                      \* a string, not a list
      JList(<<JObj(<<>>)>>),                              \* a fragment without plain_text
      JList(<<JObj(<<Member("plain_text", JNull)>>)>>),   \* plain_text: null
      JList(<<JStr(<<"A">>)>>) }                          \* a fragment that is no mapping

NameOpts == { Absent, JNull, JStr(<<"N">>), JStr(<<" ", "N", " ">>), JStr(<<" ">>) }

PropsOpts ==
    { Absent, JNull, JObj(<<>>),
      JObj(<<Member("Name", TitleProp(JList(<<Frag(<<"T">>)>>)))>>),
      JObj(<<Member("Name", TitleProp(JList(<<>>)))>>),
      JObj(<<Member("When", OtherProp),
             Member("Name", TitleProp(JList(<<Frag(<<" ", "T">>), Frag(<<"U", " ">>)>>)))>>),
      JObj(<<Member("Name", TitleProp(JNull))>>),         \* title: null
      JObj(<<Member("Name", JStr(<<"T">>))>>),            \* an entry that is no mapping
      JList(<<JNull>>) }                                  \* properties that are a list

IdOpts == { Absent, JStr(<<"i", "d">>) }

ObjectOpts == { Absent, JStr(T_PAGE), JStr(T_DATA_SOURCE), JStr(T_DATABASE) }

TitleItems ==
    { MkObj(<<Member("object", o), Member("id", i), Member("title", t),
              Member("name", n), Member("properties", p)>>) :
        o \in ObjectOpts, i \in IdOpts, t \in TitleOpts, n \in NameOpts, p \in PropsOpts }

exInit ==
    /\ exItem \in TitleItems
    /\ exFn = "none"
    /\ exRes = NotCalled

\* one call of one extractor on the item
\* _rt_to_text on the item's title field
ApplyRtToText ==
    /\ exFn = "none"
    /\ exFn' = "_rt_to_text"
    /\ exRes' = rt_to_text(Get(exItem, "title", JNull))
    /\ UNCHANGED <<exItem, exOthers>>

\* title_from_rich_text_array on the item's title field
ApplyTitleFromRichTextArray ==
    /\ exFn = "none"
    /\ exFn' = "title_from_rich_text_array"
    /\ exRes' = title_from_rich_text_array(Get(exItem, "title", JNull))
    /\ UNCHANGED <<exItem, exOthers>>

ApplyExtractPageTitle ==
    /\ exFn = "none"
    /\ exFn' = "extract_page_title"
    /\ exRes' = extract_page_title(exItem)
    /\ UNCHANGED <<exItem, exOthers>>

ApplyExtractDataSourceTitle ==
    /\ exFn = "none"
    /\ exFn' = "extract_data_source_title"
    /\ exRes' = extract_data_source_title(exItem)
    /\ UNCHANGED <<exItem, exOthers>>

ApplyDataSourceTitleFromSearchObj ==
    /\ exFn = "none"
    /\ exFn' = "_data_source_title_from_search_obj"
    /\ exRes' = data_source_title_from_search_obj(exItem)
    /\ UNCHANGED <<exItem, exOthers>>

ApplyDsTitleFromObj ==
    /\ exFn = "none"
    /\ exFn' = "_ds_title_from_obj"
    /\ exRes' = ds_title_from_obj(exItem)
    /\ UNCHANGED <<exItem, exOthers>>

ApplyExtractTitleFromPage ==
    /\ exFn = "none"
    /\ exFn' = "extract_title_from_page"
    /\ exRes' = extract_title_from_page(exItem)
    /\ UNCHANGED <<exItem, exOthers>>

ApplyPageTitleFromSearchObj ==
    /\ exFn = "none"
    /\ exFn' = "_page_title_from_search_obj"
    /\ exRes' = page_title_from_search_obj(exItem)
    /\ UNCHANGED <<exItem, exOthers>>

ApplyObjectDisplayName ==
    /\ exFn = "none"
    /\ exFn' = "object_display_name"
    /\ exRes' = object_display_name(exItem)
    /\ UNCHANGED <<exItem, exOthers>>

\* the title computed by list_all_data_sources for one item
ApplyListAllItemTitle ==
    /\ exFn = "none"
    /\ exFn' = "list_all_data_sources"
    /\ exRes' = list_all_item_title(exItem)
    /\ UNCHANGED <<exItem, exOthers>>

exNext ==
    \/ ApplyRtToText
    \/ ApplyTitleFromRichTextArray
    \/ ApplyExtractPageTitle
    \/ ApplyExtractDataSourceTitle
    \/ ApplyDataSourceTitleFromSearchObj
    \/ ApplyDsTitleFromObj
    \/ ApplyExtractTitleFromPage
    \/ ApplyPageTitleFromSearchObj
    \/ ApplyObjectDisplayName
    \/ ApplyListAllItemTitle

InitTitle == exInit /\ uuIdle /\ pgIdle /\ oaIdle /\ enIdle

SpecTitle == InitTitle /\ [][exNext]_vars

\* ---- what the claims say of the extractors ----

\* a rich-text list of the documented shape: mappings with a string plain_text
IsRichText(v) ==
    /\ v.t = "list"
    /\ \A i \in 1..Len(v.kids) :
         /\ v.kids[i].v.t = "obj"
         /\ Get(v.kids[i].v, "plain_text", JNull).t = "str"

RichTextOf(v) ==
    IF IsRichText(v)
    THEN Strip(Concat([i \in 1..Len(v.kids) |-> Get(v.kids[i].v, "plain_text", JNull).s]))
    ELSE <<>>

\* an item every field of which has a documented shape (or is missing)
Documented(item) ==
    LET t == Get(item, "title", JNull)
        n == Get(item, "name", JNull)
        p == Get(item, "properties", JObj(<<>>))
    IN  /\ t = JNull \/ IsRichText(t)
        /\ n.t \in {"null", "str"}
        /\ p.t = "obj"
        /\ \A i \in 1..Len(p.kids) :
             /\ p.kids[i].v.t = "obj"
             /\ Get(p.kids[i].v, "type", JNull) = JStr(T_TITLE)
                  => IsRichText(Get(p.kids[i].v, "title", JList(<<>>)))

\* the title the five rules give
RuleTitle(item) ==
    LET kind == Get(item, "object", JNull)
        p == Get(item, "properties", JObj(<<>>))
        titled == {i \in 1..Len(p.kids) : Get(p.kids[i].v, "type", JNull) = JStr(T_TITLE)}
        name == Get(item, "name", JNull)
        id == Get(item, "id", JNull)
        r1 == RichTextOf(Get(item, "title", JNull))
        r2 == IF kind \in {JStr(T_DATA_SOURCE), JStr(T_DATABASE)} /\ name.t = "str"
              THEN Strip(name.s) ELSE <<>>
        r3 == IF kind = JStr(T_PAGE) /\ titled # {}
              THEN RichTextOf(Get(p.kids[CHOOSE i \in titled : \A j \in titled : i <= j].v,
                                  "title", JNull))
              ELSE <<>>
        r4 == IF id.t = "str" THEN Strip(id.s) ELSE <<>>
    IN  IF r1 # <<>> THEN r1
        ELSE IF r2 # <<>> THEN r2
        ELSE IF r3 # <<>> THEN r3
        ELSE r4

PageExtractors == {"extract_page_title", "extract_title_from_page", "_page_title_from_search_obj"}
DataSourceExtractors ==
    {"extract_data_source_title", "_data_source_title_from_search_obj", "_ds_title_from_obj"}

\* the extractor applied is one written for objects of the item's type
ExtractorFits ==
    LET kind == Get(exItem, "object", JNull)
    IN  \/ exFn = "object_display_name" /\ kind \in {JStr(T_PAGE), JStr(T_DATA_SOURCE)}
        \/ exFn \in PageExtractors /\ kind = JStr(T_PAGE)
        \/ exFn \in DataSourceExtractors /\ kind = JStr(T_DATA_SOURCE)

\* C4: on every item, a title extractor returns the first non-empty value of
\* the rules in order: top-level title rich text, name (data sources), the
\* title-typed property (pages), the identifier, else the empty string; an
\* empty earlier rule never stops the fallback to a later one.
C4_FirstNonEmptyInRuleOrder ==
    (ExtractorFits /\ Documented(exItem)) => exRes = Returned(JStr(RuleTitle(exItem)))

\* C4 on object_display_name alone: a data source whose name is blank
C4_BlankNameFallsBackToId ==
    (/\ exFn = "object_display_name"
     /\ Documented(exItem)
     /\ Get(exItem, "object", JNull) = JStr(T_DATA_SOURCE)
     /\ RichTextOf(Get(exItem, "title", JNull)) = <<>>
     /\ Get(exItem, "name", JNull) = JStr(<<" ">>)
     /\ Has(exItem, "id"))
        => exRes = Returned(Get(exItem, "id", JNull))

\* C5: no extractor raises, whatever the shape of the object.
C5_ExtractionNeverRaises ==
    exFn # "none" => ~exRes.raised

\* C5 on _rt_to_text alone: a fragment whose plain_text is null
C5_NullPlainTextTolerated ==
    (/\ exFn = "_rt_to_text"
     /\ Get(exItem, "title", JNull) = JList(<<JObj(<<Member("plain_text", JNull)>>)>>))
        => exRes = Returned(JStr(<<>>))

(***************************************************************************)
(* The listing commands: the remote service                                *)
(***************************************************************************)

\* the workspace answers a listing in at most this many pages
MaxPages == 2
\* and holds at most this many objects of the kind listed
MaxItems == 2

SeqsUpTo(S, n) == UNION {[1..k -> S] : k \in 0..n}

Id(a, b) == JStr(<<a, b>>)

\* a data source as a search returns it, its title a rich-text list
Ds(id, text) ==
    JObj(<<Member("object", JStr(T_DATA_SOURCE)), Member("id", id),
           Member("title", JList(<<Frag(text)>>))>>)
\* a data source that carries a plain name and an empty title list
DsNamed(id, name) ==
    JObj(<<Member("object", JStr(T_DATA_SOURCE)), Member("id", id),
           Member("title", JList(<<>>)), Member("name", JStr(name))>>)
\* a data source the search returned without any title
DsUntitled(id) ==
    JObj(<<Member("object", JStr(T_DATA_SOURCE)), Member("id", id),
           Member("title", JList(<<>>))>>)
\* a page as a search returns it
Pg(id, text) ==
    JObj(<<Member("object", JStr(T_PAGE)), Member("id", id),
           Member("properties",
                  JObj(<<Member("Name", TitleProp(JList(<<Frag(text)>>)))>>))>>)

\* what a search for a data source named "P" may meet
FindUniverse ==
    { Ds(Id("d", "1"), <<"P">>),
      Ds(Id("d", "2"), <<"P", " ">>),
      Ds(Id("d", "3"), <<"p">>),
      Ds(Id("d", "4"), <<"P", "Q">>),
      Pg(Id("g", "1"), <<"P">>) }

\* the rows of a data source: one titled, one with an empty title
RowUniverse == { Pg(Id("r", "1"), <<"A">>), Pg(Id("r", "2"), <<>>) }

\* what a listing of the workspace may meet
ListUniverse == { Ds(Id("d", "1"), <<"P">>), Pg(Id("g", "1"), <<"A">>), DsUntitled(Id("d", "6")) }

Universe(fn) ==
    CASE fn = "find_data_source_id_by_name" -> FindUniverse
      [] fn = "query_data_source_pages" -> RowUniverse
      [] OTHER -> ListUniverse

\* the pages the running loop has been served
PagesServed == Cardinality({i \in 1..Len(pgLog) : pgLog[i].op = "page" /\ pgLog[i].ok})

\* filter={"property": "object", "value": ...} of the search the running
\* loop makes; <<>> when the call carries no filter
SearchFilter ==
    CASE pgFn = "find_data_source_id_by_name" -> T_DATA_SOURCE
      [] pgFn = "list_all_data_sources" -> T_DATA_SOURCE
      [] pgFn = "list_all_data_sources (shared)" -> T_DATA_SOURCE
      [] pgFn = "list_visible_objects" -> pgType
      [] OTHER -> <<>>

\* The answers the service may give to the next listing call: a page of
\* items that says has_more (only while pages remain) and gives a cursor,
\* or says no more or nothing at all, with a cursor or without; a body of
\* another shape; an error status; a body that is no JSON; the refusal of
\* the filter the call carries.
Replies(fn) ==
    LET lists == SeqsUpTo(Universe(fn), MaxItems - Len(pgServed))
        ends == { <<JBool(FALSE), JNull>>, <<JBool(FALSE), JStr(<<"c">>)>>,
                  <<Absent, JStr(<<"c">>)>> }
                \cup (IF PagesServed + 1 < MaxPages
                      THEN {<<JBool(TRUE), JStr(<<"c">>)>>} ELSE {})
        pages == { MkObj(<<Member("object", JStr(<<"l", "i", "s", "t">>)),
                           Member("results", JList(l)),
                           Member("next_cursor", e[2]),
                           Member("has_more", e[1])>>) :
                     l \in lists, e \in ends }
        odd == { JObj(<<>>),                                       \* no field at all
                 JObj(<<Member("results", JNull),
                        Member("has_more", JBool(FALSE))>>),       \* results: null
                 JList(<<>>) }                                     \* not an object
    IN  {[kind |-> "ok", body |-> b] : b \in pages \cup odd}
        \cup {[kind |-> "http_error", body |-> JNull], [kind |-> "bad_json", body |-> JNull]}
        \cup (IF SearchFilter # <<>>
              THEN {[kind |-> "filter_rejected", body |-> JNull]} ELSE {})

\* the page call failed: an error status, no JSON, or a body that is no page
PageCallFailed(reply) ==
    \/ reply.kind # "ok"
    \/ reply.body.t # "obj"
    \/ Has(reply.body, "results") /\ Get(reply.body, "results", JNull).t # "list"

\* the items of the page a reply carries
ItemsServed(reply) ==
    IF PageCallFailed(reply) \/ ~Has(reply.body, "results") THEN <<>>
    ELSE Elems(Get(reply.body, "results", JNull))

\* history: one remote call. more: the page said has_more true. filter: the
\* filter the call carried. rejected: the service refused that filter.
PageEvent(reply) ==
    [op |-> "page",
     ok |-> ~PageCallFailed(reply),
     more |-> ~PageCallFailed(reply) /\ Get(reply.body, "has_more", JNull) = JBool(TRUE),
     filter |-> SearchFilter,
     rejected |-> reply.kind = "filter_rejected"]

GetEvent(kind, reply) ==
    [op |-> kind, ok |-> reply.kind = "ok", more |-> FALSE, filter |-> <<>>, rejected |-> FALSE]

(***************************************************************************)
(* The listing commands: the pieces every loop shares                      *)
(***************************************************************************)

\* r.raise_for_status(); r.json() (the SDK raises in the same two cases);
\* notion.search raises APIResponseError when the service refuses the request
Fetch(reply) ==
    CASE reply.kind = "http_error" -> Raised("HTTPStatusError")
      [] reply.kind = "bad_json" -> Raised("ValueError")
      [] reply.kind = "filter_rejected" -> Raised("APIResponseError")
      [] OTHER -> Returned(reply.body)

\* resp.get("results", []) as the loops iterate it
ResultsOf(resp) ==
    IF resp.t # "obj" THEN Raised("AttributeError")
    ELSE IterOf(Get(resp, "results", JList(<<>>)))

\* a buggy loop end: the loop goes on while a cursor came back
HasMoreByCursor(resp) == Truthy(Get(resp, "next_cursor", JNull))

\* `if not resp.get("has_more"): break`: the loop goes on
HasMore(resp) == Truthy(Get(resp, "has_more", JNull))

\* cursor = resp.get("next_cursor")
NextCursor(resp) == Get(resp, "next_cursor", JNull)

\* require_env
require_env(set) == IF set THEN Returned(<<>>) ELSE Raised("RuntimeError")

Line(tag, parts) == [tag |-> tag, parts |-> parts]

NoCounts == [count |-> 0, unnamed |-> 0, pages |-> 0, data_sources |-> 0]

\* the first lines of a function: cursor = None, the counters and lists empty
BeginLoop(fn) ==
    /\ pgFn' = fn
    /\ pgPc' = "loop"
    /\ pgCursor' = JNull
    /\ pgAcc' = <<>>
    /\ pgCount' = NoCounts
    /\ pgRet' = NotCalled
    /\ pgLog' = <<>>
    /\ pgServed' = <<>>

\* an exception leaves the function and main: the command is over
ExitRaising(exc) ==
    /\ pgPc' = "exit"
    /\ pgRet' = Raised(exc)

\* the index of the first item whose processing raises, or 0
FirstRaising(outs) ==
    LET bad == {i \in 1..Len(outs) : outs[i].raised}
    IN  IF bad = {} THEN 0 ELSE CHOOSE i \in bad : \A j \in bad : i <= j

(***************************************************************************)
(* notion_list_records.py: main                                            *)
(***************************************************************************)

ValidId == Hyphenated(Casing(HexBody(32, 7), "mixed"))
ShortId == HexBody(31, 7)

DbNames == { JNull, JStr(<<" ", "P">>), JStr(<<"p">>) }

\* the branch of main the arguments select
Mode(a) ==
    IF a.list_data_sources THEN "list_data_sources"
    ELSE IF a.list_all THEN "list_all"
    ELSE IF a.list_pages THEN "list_pages"
    ELSE IF Truthy(a.resolve_id) THEN "resolve_id"
    ELSE "db"

\* command lines; an option the selected branch never reads is left out
CommandLines ==
    { a \in [prog : {"notion_list_records"},
             list_data_sources : BOOLEAN, list_all : BOOLEAN, list_pages : BOOLEAN,
             resolve_id : {JNull, JStr(ValidId), JStr(ShortId)},
             type : {JNull, JStr(T_PAGE), JStr(T_DATA_SOURCE)},
             expect : {JNull, JStr(<<"A">>), JStr(<<"B">>)},
             db_name : DbNames,
             print : BOOLEAN] :
        /\ Mode(a) # "resolve_id" => a.type = JNull /\ a.expect = JNull
        /\ Mode(a) # "db" => a.db_name = JNull /\ ~a.print
        /\ Mode(a) \in {"list_data_sources", "list_all", "list_pages"} => a.resolve_id = JNull }
    \cup
    { [prog |-> p, list_data_sources |-> FALSE, list_all |-> FALSE, list_pages |-> FALSE,
       resolve_id |-> JNull, type |-> JNull, expect |-> JNull, db_name |-> JNull,
       print |-> pr] :
        p \in {"notion_all_shared (HEAD)", "notion_all_shared (90bae8d)"}, pr \in BOOLEAN }

pgInit ==
    /\ pgArgs \in CommandLines
    /\ pgToken \in BOOLEAN
    /\ pgSdk = FALSE
    /\ pgInput \in {<<" ">>, <<"Q", " ">>}
    \* the prompt is read only when no database name is given
    /\ (pgArgs.prog # "notion_list_records" \/ Mode(pgArgs) # "db" \/ pgArgs.db_name # JNull)
         => pgInput = <<" ">>
    /\ pgFn = "main"
    /\ pgPc = "start"
    /\ pgType = <<>>
    /\ pgDbName = <<>>
    /\ pgCursor = JNull
    /\ pgAcc = <<>>
    /\ pgCount = NoCounts
    /\ pgOut = <<>>
    /\ pgRet = NotCalled
    /\ pgLog = <<>>
    /\ pgServed = <<>>

\* prompt_db_name_if_missing
prompt_db_name_if_missing(db_name, typed) ==
    IF Truthy(db_name) /\ Strip(db_name.s) # <<>>
    THEN Returned(Strip(db_name.s))
    ELSE IF Strip(typed) = <<>> THEN Raised("ValueError") ELSE Returned(Strip(typed))

\* main up to the first remote call of a listing: the token, the branch, the
\* database name
MainStart ==
    /\ pgPc = "start"
    /\ pgArgs.prog = "notion_list_records"
    /\ ~pgToken \/ Mode(pgArgs) # "resolve_id"
    /\ LET env == require_env(pgToken)
           mode == Mode(pgArgs)
           name == prompt_db_name_if_missing(pgArgs.db_name, pgInput)
       IN  IF env.raised
           THEN /\ ExitRaising(env.exc)
                /\ UNCHANGED <<pgFn, pgType, pgDbName, pgCursor, pgAcc, pgCount, pgLog, pgServed>>
           ELSE IF mode = "list_data_sources"
           THEN BeginLoop("list_all_data_sources") /\ UNCHANGED <<pgType, pgDbName>>
           ELSE IF mode = "list_all"
           THEN /\ BeginLoop("list_visible_objects")
                /\ pgType' = T_DATA_SOURCE
                /\ UNCHANGED pgDbName
           ELSE IF mode = "list_pages"
           THEN /\ BeginLoop("list_visible_objects")
                /\ pgType' = T_PAGE
                /\ UNCHANGED pgDbName
           ELSE IF name.raised
           THEN /\ ExitRaising(name.exc)
                /\ UNCHANGED <<pgFn, pgType, pgDbName, pgCursor, pgAcc, pgCount, pgLog, pgServed>>
           ELSE /\ BeginLoop("find_data_source_id_by_name")
                /\ pgDbName' = name.val
                /\ UNCHANGED pgType
    /\ UNCHANGED <<pgArgs, pgToken, pgSdk, pgInput, pgOut, pgOthers>>

ExitNormally ==
    /\ pgPc' = "exit"
    /\ pgRet' = Returned(<<>>)

(***************************************************************************)
(* notion_list_records.py: find_data_source_id_by_name                     *)
(***************************************************************************)

\* a buggy comparison: the case is folded
TitleEqualsFolded(title, db_name) == Lower(title) = Lower(db_name)

\* title == db_name
TitleEquals(title, db_name) == title = db_name

\* the body of the for loop: whether the item is appended to matches
find_item_matches(item, db_name) ==
    IF item.t # "obj" THEN Raised("AttributeError")
    ELSE IF Get(item, "object", JNull) # JStr(T_DATA_SOURCE) THEN Returned(FALSE)
    ELSE LET title == extract_data_source_title(item)
         IN  IF title.raised THEN title
             ELSE Returned(TitleEquals(title.val.s, db_name))

\* the lines after the loop
find_result(matches) ==
    IF matches = <<>> THEN Raised("LookupError")
    ELSE IF ~Has(matches[1], "id") THEN Raised("KeyError")
    ELSE Returned(Get(matches[1], "id", JNull))

\* one turn of the while loop, and the lines after it when the loop ends
FindIteration ==
    /\ pgPc = "loop"
    /\ pgFn = "find_data_source_id_by_name"
    /\ \E reply \in Replies(pgFn) :
         LET resp == Fetch(reply)
             items == IF resp.raised THEN resp ELSE ResultsOf(resp.val)
             outs == IF items.raised THEN <<>>
                     ELSE [i \in 1..Len(items.val) |-> find_item_matches(items.val[i], pgDbName)]
             bad == FirstRaising(outs)
             hits == {i \in 1..Len(outs) : outs[i].val = TRUE}
             matches == pgAcc \o SelectSeq(IF items.raised THEN <<>> ELSE items.val,
                                           LAMBDA it : \E i \in hits : items.val[i] = it)
         IN  /\ pgLog' = Append(pgLog, PageEvent(reply))
             /\ pgServed' = pgServed \o ItemsServed(reply)
             /\ IF items.raised
                THEN ExitRaising(items.exc) /\ UNCHANGED <<pgCursor, pgAcc>>
                ELSE IF bad # 0
                THEN ExitRaising(outs[bad].exc) /\ UNCHANGED <<pgCursor, pgAcc>>
                ELSE /\ pgAcc' = matches
                     /\ pgCursor' = NextCursor(resp.val)
                     /\ IF HasMore(resp.val)
                        THEN UNCHANGED <<pgPc, pgRet>>
                        ELSE /\ pgRet' = find_result(matches)
                             /\ pgPc' = IF find_result(matches).raised THEN "exit" ELSE "returned"
    /\ UNCHANGED <<pgArgs, pgToken, pgSdk, pgInput, pgFn, pgType, pgDbName, pgCount, pgOut,
                   pgOthers>>

\* main, line 358: collect_row_titles_from_data_source enters the query
MainAfterFind ==
    /\ pgPc = "returned"
    /\ pgFn = "find_data_source_id_by_name"
    /\ BeginLoop("query_data_source_pages")
    \* line 193: the installed client has the endpoint, or has not
    /\ pgSdk' \in BOOLEAN
    /\ UNCHANGED <<pgArgs, pgToken, pgInput, pgType, pgDbName, pgOut, pgOthers>>

(***************************************************************************)
(* notion_list_records.py: query_data_source_pages                         *)
(***************************************************************************)

\* a buggy accumulation: the page replaces what was collected
ReplaceResults(results, items) == items

\* results.extend(...)
ExtendResults(results, items) == results \o items

\* one turn of the while loop; the return when the loop ends
QueryIteration ==
    /\ pgPc = "loop"
    /\ pgFn = "query_data_source_pages"
    /\ LET env == IF pgSdk THEN Returned(<<>>) ELSE require_env(pgToken)
       IN  IF env.raised
           THEN /\ ExitRaising(env.exc)
                /\ UNCHANGED <<pgCursor, pgAcc, pgLog, pgServed>>
           ELSE \E reply \in Replies(pgFn) :
                  LET resp == Fetch(reply)
                      items == IF resp.raised THEN resp ELSE ResultsOf(resp.val)
                  IN  /\ pgLog' = Append(pgLog, PageEvent(reply))
                      /\ pgServed' = pgServed \o ItemsServed(reply)
                      /\ IF items.raised
                         THEN ExitRaising(items.exc) /\ UNCHANGED <<pgCursor, pgAcc>>
                         ELSE /\ pgAcc' = ExtendResults(pgAcc, items.val)
                              /\ pgCursor' = NextCursor(resp.val)
                              /\ IF HasMore(resp.val)
                                 THEN UNCHANGED <<pgPc, pgRet>>
                                 ELSE /\ pgPc' = "returned"
                                      /\ pgRet' = Returned(pgAcc')
    /\ UNCHANGED <<pgArgs, pgToken, pgSdk, pgInput, pgFn, pgType, pgDbName, pgCount, pgOut,
                   pgOthers>>

\* collect_row_titles_from_data_source after the query, and main to its end
MainAfterQuery ==
    /\ pgPc = "returned"
    /\ pgFn = "query_data_source_pages"
    /\ LET pages == pgRet.val
           titles == [i \in 1..Len(pages) |-> extract_title_from_page(pages[i])]
           bad == FirstRaising(titles)
       IN  IF bad # 0
           THEN ExitRaising(titles[bad].exc) /\ UNCHANGED pgOut
           ELSE /\ ExitNormally
                /\ pgOut' = pgOut
                        \o <<Line("Database", <<JStr(pgDbName)>>),
                             Line("Total records", <<JNum(Len(titles))>>)>>
                        \o (IF pgArgs.print
                            THEN [i \in 1..Len(titles) |-> Line("title", <<titles[i].val>>)]
                            ELSE <<>>)
    /\ UNCHANGED <<pgArgs, pgToken, pgSdk, pgInput, pgFn, pgType, pgDbName, pgCursor, pgAcc,
                   pgCount, pgLog, pgServed, pgOthers>>

(***************************************************************************)
(* notion_list_records.py: list_visible_objects, list_all_data_sources     *)
(***************************************************************************)

NoTitle == JStr(<<"(no title returned)">>)

\* the lines of the outcomes before the first that raised
LinesPrinted(outs) ==
    LET bad == FirstRaising(outs)
        n == IF bad = 0 THEN Len(outs) ELSE bad - 1
    IN  [i \in 1..n |-> outs[i].val]

\* the body of the for loop of list_visible_objects: the line printed
visible_object_line(item, object_type) ==
    IF item.t # "obj" THEN Raised("AttributeError")
    ELSE LET oid == Get(item, "id", JStr(<<>>))
             t == IF object_type = T_PAGE
                  THEN page_title_from_search_obj(item)
                  ELSE data_source_title_from_search_obj(item)
         IN  IF t.raised THEN t
             ELSE Returned(Line(IF object_type = T_PAGE THEN "PAGE" ELSE "DATA_SOURCE",
                                <<oid, IF Truthy(t.val) THEN t.val ELSE NoTitle>>))

\* one turn of the while loop of list_visible_objects; the total when it ends
ListVisibleIteration ==
    /\ pgPc = "loop"
    /\ pgFn = "list_visible_objects"
    /\ \E reply \in Replies(pgFn) :
         LET resp == Fetch(reply)
             items == IF resp.raised THEN resp ELSE ResultsOf(resp.val)
             outs == IF items.raised THEN <<>>
                     ELSE [i \in 1..Len(items.val) |-> visible_object_line(items.val[i], pgType)]
             bad == FirstRaising(outs)
             count == pgCount.count + Len(outs)
         IN  /\ pgLog' = Append(pgLog, PageEvent(reply))
             /\ pgServed' = pgServed \o ItemsServed(reply)
             /\ IF items.raised
                THEN ExitRaising(items.exc) /\ UNCHANGED <<pgCursor, pgCount, pgOut>>
                ELSE IF bad # 0
                THEN /\ ExitRaising(outs[bad].exc)
                     /\ pgOut' = pgOut \o LinesPrinted(outs)
                     /\ pgCount' = [pgCount EXCEPT !.count = @ + bad - 1]
                     /\ UNCHANGED pgCursor
                ELSE /\ pgCount' = [pgCount EXCEPT !.count = count]
                     /\ pgCursor' = NextCursor(resp.val)
                     /\ IF HasMore(resp.val)
                        THEN /\ pgOut' = pgOut \o LinesPrinted(outs)
                             /\ UNCHANGED <<pgPc, pgRet>>
                        ELSE /\ pgOut' = pgOut \o LinesPrinted(outs)
                                      \o <<Line("Total visible", <<JStr(pgType), JNum(count)>>)>>
                             /\ pgPc' = "returned"
                             /\ pgRet' = Returned(<<>>)
    /\ UNCHANGED <<pgArgs, pgToken, pgSdk, pgInput, pgFn, pgType, pgDbName, pgAcc, pgOthers>>

\* the body of the for loop of list_all_data_sources: the line printed
list_all_line(item) ==
    IF item.t # "obj" THEN Raised("AttributeError")
    ELSE LET t == list_all_item_title(item)
         IN  IF t.raised THEN t ELSE Returned(Line("title", <<t.val>>))

\* one turn of the while loop of list_all_data_sources; the total when it ends
ListAllIteration ==
    /\ pgPc = "loop"
    /\ pgFn = "list_all_data_sources"
    /\ \E reply \in Replies(pgFn) :
         LET resp == Fetch(reply)
             items == IF resp.raised THEN resp ELSE ResultsOf(resp.val)
             outs == IF items.raised THEN <<>>
                     ELSE [i \in 1..Len(items.val) |-> list_all_line(items.val[i])]
             bad == FirstRaising(outs)
             count == pgCount.count + Len(outs)
         IN  /\ pgLog' = Append(pgLog, PageEvent(reply))
             /\ pgServed' = pgServed \o ItemsServed(reply)
             /\ IF items.raised
                THEN ExitRaising(items.exc) /\ UNCHANGED <<pgCursor, pgCount, pgOut>>
                ELSE IF bad # 0
                THEN /\ ExitRaising(outs[bad].exc)
                     /\ pgOut' = pgOut \o LinesPrinted(outs)
                     /\ pgCount' = [pgCount EXCEPT !.count = @ + bad - 1]
                     /\ UNCHANGED pgCursor
                ELSE /\ pgCount' = [pgCount EXCEPT !.count = count]
                     /\ pgCursor' = NextCursor(resp.val)
                     /\ IF HasMore(resp.val)
                        THEN /\ pgOut' = pgOut \o LinesPrinted(outs)
                             /\ UNCHANGED <<pgPc, pgRet>>
                        ELSE /\ pgOut' = pgOut \o LinesPrinted(outs)
                                      \o <<Line("Total data sources", <<JNum(count)>>)>>
                             /\ pgPc' = "returned"
                             /\ pgRet' = Returned(<<>>)
    /\ UNCHANGED <<pgArgs, pgToken, pgSdk, pgInput, pgFn, pgType, pgDbName, pgAcc, pgOthers>>

\* main after a listing returned: --list-all lists the pages after the data
\* sources; every other listing ends the command
MainAfterListing ==
    /\ pgPc = "returned"
    /\ pgFn \in {"list_visible_objects", "list_all_data_sources"}
    /\ IF pgFn = "list_visible_objects" /\ Mode(pgArgs) = "list_all" /\ pgType = T_DATA_SOURCE
       THEN /\ BeginLoop("list_visible_objects")
            /\ pgType' = T_PAGE
            /\ pgOut' = Append(pgOut, Line("", <<>>))
       ELSE /\ ExitNormally
            /\ UNCHANGED <<pgFn, pgType, pgCursor, pgAcc, pgCount, pgOut, pgLog, pgServed>>
    /\ UNCHANGED <<pgArgs, pgToken, pgSdk, pgInput, pgDbName, pgOthers>>

(***************************************************************************)
(* notion_list_records.py: main --resolve-id                               *)
(***************************************************************************)

\* what a retrieve-by-id call may answer
RetrievedPage ==
    JObj(<<Member("object", JStr(T_PAGE)), Member("id", Id("x", "1")),
           Member("properties", JObj(<<Member("Name", TitleProp(JList(<<Frag(<<"A">>)>>)))>>))>>)

RetrievedDataSource(title) ==
    JObj(<<Member("object", JStr(T_DATA_SOURCE)), Member("id", Id("x", "1")),
           Member("title", JList(title))>>)

RetrieveReplies ==
    {[kind |-> "ok", body |-> b] :
        b \in {RetrievedPage, RetrievedDataSource(<<Frag(<<"A", " ">>)>>),
               RetrievedDataSource(<<>>)}}
    \cup {[kind |-> "http_error", body |-> JNull], [kind |-> "bad_json", body |-> JNull]}

\* what the retrieve of an untitled data source may answer
FallbackReplies ==
    {[kind |-> "ok", body |-> b] :
        b \in {RetrievedDataSource(<<Frag(<<"A", " ">>)>>), RetrievedDataSource(<<>>)}}
    \cup {[kind |-> "http_error", body |-> JNull]}

\* main, lines 328-353, with the one retrieve-by-id call it makes
MainResolveId ==
    /\ pgPc = "start"
    /\ pgArgs.prog = "notion_list_records"
    /\ pgToken
    /\ Mode(pgArgs) = "resolve_id"
    /\ LET obj_id == normalize_uuid(pgArgs.resolve_id.s)
       IN  IF obj_id.raised
           THEN ExitRaising(obj_id.exc) /\ UNCHANGED <<pgOut, pgLog>>
           ELSE IF ~Truthy(pgArgs.type)
           THEN ExitRaising("ValueError") /\ UNCHANGED <<pgOut, pgLog>>
           ELSE \E reply \in RetrieveReplies :
                  LET obj == Fetch(reply)
                      title == IF obj.raised THEN obj
                               ELSE IF pgArgs.type.s = T_PAGE
                               THEN extract_page_title(obj.val)
                               ELSE extract_data_source_title(obj.val)
                      url == notion_url_from_uuid(obj_id.val)
                      shown == <<Line("Type", <<pgArgs.type>>),
                                 Line("ID", <<JStr(obj_id.val)>>),
                                 Line("URL", <<JStr(url.val)>>),
                                 Line("Name", <<IF Truthy(title.val) THEN title.val ELSE NoTitle>>)>>
                      ok == title.val = pgArgs.expect
                  IN  /\ pgLog' = Append(pgLog, GetEvent("retrieve", reply))
                      /\ IF title.raised
                         THEN ExitRaising(title.exc) /\ UNCHANGED pgOut
                         ELSE IF url.raised
                         THEN /\ ExitRaising(url.exc)
                              /\ pgOut' = pgOut \o SubSeq(shown, 1, 2)
                         ELSE IF pgArgs.expect = JNull
                         THEN ExitNormally /\ pgOut' = pgOut \o shown
                         ELSE /\ pgOut' = pgOut \o shown
                                   \o <<Line("Expected", <<pgArgs.expect>>),
                                        Line("Match", <<JBool(ok)>>)>>
                              /\ IF ok THEN ExitNormally ELSE ExitRaising("SystemExit")
    /\ UNCHANGED <<pgArgs, pgToken, pgSdk, pgInput, pgFn, pgType, pgDbName, pgCursor, pgAcc,
                   pgCount, pgServed, pgOthers>>

(***************************************************************************)
(* notion_all_shared.py, the side of HEAD: main and dump_shared            *)
(***************************************************************************)

\* main up to the loop of dump_shared
SharedHeadStart ==
    /\ pgPc = "start"
    /\ pgArgs.prog = "notion_all_shared (HEAD)"
    /\ IF require_env(pgToken).raised
       THEN /\ ExitRaising("RuntimeError")
            /\ UNCHANGED <<pgFn, pgCursor, pgAcc, pgCount, pgLog, pgServed>>
       ELSE BeginLoop("dump_shared")
    /\ UNCHANGED <<pgArgs, pgToken, pgSdk, pgInput, pgType, pgDbName, pgOut, pgOthers>>

\* the body of the for loop of dump_shared: the line it prints with --print
dump_shared_line(item) ==
    IF item.t # "obj" THEN Raised("AttributeError")
    ELSE LET obj_type == Get(item, "object", JNull)
             name == object_display_name(item)
         IN  IF name.raised THEN name
             ELSE Returned(Line(CASE obj_type = JStr(T_PAGE) -> "PAGE"
                                  [] obj_type = JStr(T_DATA_SOURCE) -> "DATA_SOURCE"
                                  [] OTHER -> "OTHER",
                                <<name.val>>))

CountOf(outs, n, tag) == Cardinality({i \in 1..n : outs[i].val.tag = tag})

\* one turn of the while loop of dump_shared; the return when it ends
DumpSharedIteration ==
    /\ pgPc = "loop"
    /\ pgFn = "dump_shared"
    /\ \E reply \in Replies(pgFn) :
         LET resp == Fetch(reply)
             items == IF resp.raised THEN resp ELSE ResultsOf(resp.val)
             outs == IF items.raised THEN <<>>
                     ELSE [i \in 1..Len(items.val) |-> dump_shared_line(items.val[i])]
             bad == FirstRaising(outs)
             n == IF bad = 0 THEN Len(outs) ELSE bad - 1
             counts == [pgCount EXCEPT !.pages = @ + CountOf(outs, n, "PAGE"),
                                       !.data_sources = @ + CountOf(outs, n, "DATA_SOURCE")]
             printed == IF pgArgs.print THEN LinesPrinted(outs) ELSE <<>>
         IN  /\ pgLog' = Append(pgLog, PageEvent(reply))
             /\ pgServed' = pgServed \o ItemsServed(reply)
             /\ IF items.raised
                THEN ExitRaising(items.exc) /\ UNCHANGED <<pgCursor, pgCount, pgOut>>
                ELSE /\ pgCount' = counts
                     /\ pgOut' = pgOut \o printed
                     /\ IF bad # 0
                        THEN ExitRaising(outs[bad].exc) /\ UNCHANGED pgCursor
                        ELSE /\ pgCursor' = NextCursor(resp.val)
                             /\ IF HasMore(resp.val)
                                THEN UNCHANGED <<pgPc, pgRet>>
                                ELSE /\ pgPc' = "returned"
                                     /\ pgRet' = Returned(<<counts.pages, counts.data_sources>>)
    /\ UNCHANGED <<pgArgs, pgToken, pgSdk, pgInput, pgFn, pgType, pgDbName, pgAcc, pgOthers>>

\* main after dump_shared: the two totals
SharedHeadAfterDump ==
    /\ pgPc = "returned"
    /\ pgFn = "dump_shared"
    /\ pgOut' = pgOut \o <<Line("Total shared pages", <<JNum(pgRet.val[1])>>),
                           Line("Total shared data_sources", <<JNum(pgRet.val[2])>>)>>
    /\ ExitNormally
    /\ UNCHANGED <<pgArgs, pgToken, pgSdk, pgInput, pgFn, pgType, pgDbName, pgCursor, pgAcc,
                   pgCount, pgLog, pgServed, pgOthers>>

(***************************************************************************)
(* notion_all_shared.py, the side of 90bae8d: list_all_data_sources        *)
(***************************************************************************)

\* list_all_data_sources up to its loop
SharedListStart ==
    /\ pgPc = "start"
    /\ pgArgs.prog = "notion_all_shared (90bae8d)"
    /\ IF require_env(pgToken).raised
       THEN /\ ExitRaising("RuntimeError")
            /\ UNCHANGED <<pgFn, pgCursor, pgAcc, pgCount, pgLog, pgServed>>
       ELSE BeginLoop("list_all_data_sources (shared)")
    /\ UNCHANGED <<pgArgs, pgToken, pgSdk, pgInput, pgType, pgDbName, pgOut, pgOthers>>

\* retrieve_data_source_name_raw
retrieve_data_source_name_raw(reply) ==
    LET obj == Fetch(reply)
    IN  IF obj.raised THEN obj ELSE ds_title_from_obj(obj.val)

\* the item makes list_all_data_sources retrieve it by id
NeedsRetrieve(item) ==
    /\ item.t = "obj"
    /\ ~ds_title_from_obj(item).raised
    /\ ~Truthy(ds_title_from_obj(item).val)
    /\ Truthy(Get(item, "id", JStr(<<>>)))

\* a buggy fallback: the exception of the retrieve is not caught
shared_item_title_uncaught(item, reply) ==
    IF item.t # "obj" THEN Raised("AttributeError")
    ELSE IF ds_title_from_obj(item).raised THEN ds_title_from_obj(item)
    ELSE IF NeedsRetrieve(item) THEN retrieve_data_source_name_raw(reply)
    ELSE ds_title_from_obj(item)

\* the body of the for loop up to `if not title`: the title, the retrieve by
\* id answered by reply; `except Exception: title = ""`
shared_item_title(item, reply) ==
    IF item.t # "obj" THEN Raised("AttributeError")
    ELSE IF ds_title_from_obj(item).raised THEN ds_title_from_obj(item)
    ELSE IF NeedsRetrieve(item)
    THEN LET got == retrieve_data_source_name_raw(reply)
         IN  IF got.raised THEN Returned(JStr(<<>>)) ELSE got
    ELSE ds_title_from_obj(item)

\* the retrieve calls one page makes, in order
RECURSIVE RetrieveEvents(_, _)
RetrieveEvents(items, replies) ==
    IF items = <<>> THEN <<>>
    ELSE (IF NeedsRetrieve(Head(items))
          THEN <<GetEvent("fallback", Head(replies))>> ELSE <<>>)
         \o RetrieveEvents(Tail(items), Tail(replies))

\* one turn of the while loop; the two totals when it ends
SharedListIteration ==
    /\ pgPc = "loop"
    /\ pgFn = "list_all_data_sources (shared)"
    /\ \E reply \in Replies(pgFn) :
         LET resp == Fetch(reply)
             items == IF resp.raised THEN resp ELSE ResultsOf(resp.val)
             n == IF items.raised THEN 0 ELSE Len(items.val)
         IN  \E gets \in {g \in [1..n -> FallbackReplies] :
                            \A i \in 1..n : ~NeedsRetrieve(items.val[i])
                                              => g[i] = [kind |-> "http_error", body |-> JNull]} :
               LET titles == [i \in 1..n |-> shared_item_title(items.val[i], gets[i])]
                   bad == FirstRaising(titles)
                   done == IF bad = 0 THEN n ELSE bad - 1
                   lines == [i \in 1..done |->
                               Line("data source",
                                    <<Get(items.val[i], "id", JStr(<<>>)),
                                      IF Truthy(titles[i].val) THEN titles[i].val ELSE NoTitle>>)]
                   counts == [pgCount EXCEPT
                                !.count = @ + done,
                                !.unnamed = @ + Cardinality({i \in 1..done : ~Truthy(titles[i].val)})]
               IN  /\ pgLog' = Append(pgLog, PageEvent(reply))
                               \o RetrieveEvents(SubSeq(ItemsServed(reply), 1,
                                                        IF bad = 0 THEN n ELSE bad),
                                                 gets)
                   /\ pgServed' = pgServed \o ItemsServed(reply)
                   /\ IF items.raised
                      THEN ExitRaising(items.exc) /\ UNCHANGED <<pgCursor, pgCount, pgOut>>
                      ELSE /\ pgCount' = counts
                           /\ IF bad # 0
                              THEN /\ ExitRaising(titles[bad].exc)
                                   /\ pgOut' = pgOut \o lines
                                   /\ UNCHANGED pgCursor
                              ELSE /\ pgCursor' = NextCursor(resp.val)
                                   /\ IF HasMore(resp.val)
                                      THEN /\ pgOut' = pgOut \o lines
                                           /\ UNCHANGED <<pgPc, pgRet>>
                                      ELSE /\ pgOut' = pgOut \o lines
                                                \o <<Line("Total data sources", <<JNum(counts.count)>>),
                                                     Line("No title returned", <<JNum(counts.unnamed)>>)>>
                                           /\ pgPc' = "exit"
                                           /\ pgRet' = Returned(<<>>)
    /\ UNCHANGED <<pgArgs, pgToken, pgSdk, pgInput, pgFn, pgType, pgDbName, pgAcc, pgOthers>>

pgNext ==
    \/ MainStart
    \/ FindIteration
    \/ MainAfterFind
    \/ QueryIteration
    \/ MainAfterQuery
    \/ ListVisibleIteration
    \/ ListAllIteration
    \/ MainAfterListing
    \/ MainResolveId
    \/ SharedHeadStart
    \/ DumpSharedIteration
    \/ SharedHeadAfterDump
    \/ SharedListStart
    \/ SharedListIteration

InitPag == pgInit /\ uuIdle /\ exIdle /\ oaIdle /\ enIdle

SpecPag == InitPag /\ [][pgNext]_vars

(***************************************************************************)
(* The listing commands: properties                                        *)
(***************************************************************************)

\* the loops of notion_list_records.py
Loops ==
    {"query_data_source_pages", "find_data_source_id_by_name", "list_visible_objects",
     "list_all_data_sources"}

\* the i-th remote call was a page call answered by a well-formed last page
LastPageAt(i) == pgLog[i].op = "page" /\ pgLog[i].ok /\ ~pgLog[i].more

Failures == {i \in 1..Len(pgLog) : ~pgLog[i].ok}

\* C1: when the service answers query_data_source_pages with N >= 1
\* well-formed pages of which the first N-1 say has_more and the N-th does
\* not, the function makes exactly N calls (none while a page that ended the
\* script lies behind, none missing) and returns the items of the pages in
\* the order served, nothing dropped, repeated, reordered or deduplicated,
\* whatever cursor page N carries.
C1_QueryReturnsConcatenation ==
    pgFn = "query_data_source_pages" =>
      /\ \A i \in 1..Len(pgLog) : pgLog[i].op = "page"
      /\ pgPc = "loop" => \A i \in 1..Len(pgLog) : pgLog[i].ok /\ pgLog[i].more
      /\ Failures = {} => pgAcc = pgServed
      /\ (pgLog # <<>> /\ LastPageAt(Len(pgLog))) => pgPc # "loop"
      /\ pgPc = "returned" =>
           /\ pgLog # <<>>
           /\ \A i \in 1..Len(pgLog) : pgLog[i].ok /\ (pgLog[i].more <=> i < Len(pgLog))
           /\ pgRet = Returned(pgServed)

\* two pages, the same row on each, a cursor on the last page
C1_Witness ==
    /\ pgFn = "query_data_source_pages"
    /\ pgPc = "returned"
    /\ Len(pgLog) = 2
    /\ Len(pgServed) = 2
    /\ pgServed[1] = pgServed[2]
    /\ pgCursor # JNull
    /\ pgRet = Returned(pgServed)

\* C2: in every pagination loop, once a well-formed page came without
\* has_more true (false, or no such field), no further page is requested,
\* whatever next_cursor the page carried; the four loops of
\* notion_list_records.py make no remote call at all after it.
C2_NoCallAfterLastPage ==
    \A i \in 1..Len(pgLog) :
      LastPageAt(i) =>
        /\ pgPc # "loop"
        /\ \A j \in (i + 1)..Len(pgLog) : pgLog[j].op # "page"
        /\ pgFn \in Loops => i = Len(pgLog)

\* a listing ended on its second page, which carried a cursor
C2_Witness ==
    /\ pgFn = "list_visible_objects"
    /\ pgPc = "returned"
    /\ Len(pgLog) = 2
    /\ LastPageAt(2)
    /\ pgCursor # JNull

Unretrieved == {i \in Failures : pgLog[i].op = "fallback"}

TrimmedTitle(item) == RichTextOf(Get(item, "title", JNull))

Candidates == {i \in 1..Len(pgServed) : TrimmedTitle(pgServed[i]) = pgDbName}

\* C6: when every page was served, find_data_source_id_by_name returns the
\* identifier of the first served item, in the order served across the
\* pages, whose trimmed title is the target character for character;
\* several matches are no error; it raises LookupError exactly when no
\* served item matches.
C6_FirstExactMatch ==
    (pgFn = "find_data_source_id_by_name" /\ pgPc # "loop" /\ Failures = {}) =>
      /\ pgRet # NotCalled
      /\ Candidates = {} <=> pgRet = Raised("LookupError")
      /\ Candidates # {} =>
           \E i \in Candidates :
             /\ \A j \in Candidates : i <= j
             /\ pgRet = Returned(Get(pgServed[i], "id", JNull))

\* "P " before "P": two matches, the first is returned, "p" is none
C6_Witness ==
    /\ pgFn = "find_data_source_id_by_name"
    /\ pgPc = "returned"
    /\ pgDbName = <<"P">>
    /\ Len(pgLog) = 2
    /\ Len(pgServed) = 2
    /\ Get(pgServed[1], "id", JNull) = Id("d", "2")
    /\ Get(pgServed[2], "id", JNull) = Id("d", "1")
    /\ pgRet = Returned(Id("d", "2"))

\* no match among a lower-case and a longer title
C6_NoMatchWitness ==
    /\ pgFn = "find_data_source_id_by_name"
    /\ pgPc = "exit"
    /\ pgDbName = <<"P">>
    /\ Failures = {}
    /\ Len(pgServed) = 2
    /\ Get(pgServed[1], "id", JNull) = Id("d", "3")
    /\ Get(pgServed[2], "id", JNull) = Id("d", "4")
    /\ pgRet = Raised("LookupError")

\* the calls whose object-type filter the service refused
Rejections == {i \in 1..Len(pgLog) : pgLog[i].rejected}

\* C11: when the service refuses the object-type filter of a listing call,
\* the listing does not fail on it: the refused call is never the last call
\* of a command that ended raising (an unfiltered call follows instead).
C11_FilterRejectionTolerated ==
    \A i \in Rejections :
      ~(i = Len(pgLog) /\ pgPc = "exit" /\ pgRet.raised)

\* C11 on list_visible_objects alone: after a refusal a call without filter
\* is made before the command ends
C11_UnfilteredCallFollows ==
    (pgFn = "list_visible_objects" /\ pgPc = "exit") =>
      \A i \in Rejections : \E j \in (i + 1)..Len(pgLog) : pgLog[j].filter = <<>>

(***************************************************************************)
(* enex_extract_note_info.py                                               *)
(***************************************************************************)

MaxNotes == 2

\* a <note> element: whether it has a <title> child, and the child's text
\* (None for an empty element)
NoteKinds ==
    { [has_title |-> FALSE, text |-> JNull],
      [has_title |-> TRUE, text |-> JNull],
      [has_title |-> TRUE, text |-> JStr(<<" ">>)],
      [has_title |-> TRUE, text |-> JStr(<<" ", "A">>)] }

\* the file named on the command line: absent, not well-formed XML, or an
\* export of up to MaxNotes notes
EnexFiles ==
    { [exists |-> FALSE, wellformed |-> FALSE, notes |-> <<>>],
      [exists |-> TRUE, wellformed |-> FALSE, notes |-> <<>>] }
    \cup { [exists |-> TRUE, wellformed |-> TRUE, notes |-> n] :
             n \in UNION { [1..k -> NoteKinds] : k \in 0..MaxNotes } }

\* the body of the loop of parse_enex_titles, line 20
note_title(note) ==
    IF note.has_title
    THEN Strip(IF Truthy(note.text) THEN note.text.s ELSE <<>>)
    ELSE <<>>

\* parse_enex_titles
parse_enex_titles(file) ==
    IF ~file.wellformed THEN Raised("ParseError")
    ELSE Returned([i \in 1..Len(file.notes) |-> note_title(file.notes[i])])

\* empty_titles = [i for i, t in enumerate(titles, start=1) if not t]
empty_titles(titles) == SelectSeq([i \in 1..Len(titles) |-> i], LAMBDA i : titles[i] = <<>>)

enInit ==
    /\ enArgs \in [print : BOOLEAN, fail_on_empty_title : BOOLEAN]
    /\ enFile \in EnexFiles
    /\ enPc = "start"
    /\ enTitles = <<>>
    /\ enOut = <<>>
    /\ enStatus = -1

\* main, lines 40-45: the file is looked up and parsed; an exception of the
\* parser is caught nowhere and ends the process with status 1
EnexOpen ==
    /\ enPc = "start"
    /\ LET titles == parse_enex_titles(enFile)
       IN  IF ~enFile.exists
           THEN enPc' = "exit" /\ enStatus' = 2 /\ UNCHANGED enTitles
           ELSE IF titles.raised
           THEN enPc' = "exit" /\ enStatus' = 1 /\ UNCHANGED enTitles
           ELSE enPc' = "parsed" /\ enTitles' = titles.val /\ UNCHANGED enStatus
    /\ UNCHANGED <<enArgs, enFile, enOut, enOthers>>

\* main, lines 57-59, and the return of main
enex_status(args, titles) ==
    IF args.fail_on_empty_title /\ empty_titles(titles) # <<>> THEN 1 ELSE 0

\* main, lines 47-59
EnexReport ==
    /\ enPc = "parsed"
    /\ enOut' = enOut
         \o <<Line("ENEX file", <<>>),
              Line("Total exported notes", <<JNum(Len(enTitles))>>),
              Line("Empty titles", <<JNum(Len(empty_titles(enTitles)))>>)>>
         \o (IF enArgs.print
             THEN [i \in 1..Len(enTitles) |-> Line("", <<JStr(enTitles[i])>>)]
             ELSE <<>>)
    /\ enStatus' = enex_status(enArgs, enTitles)
    /\ enPc' = "exit"
    /\ UNCHANGED <<enArgs, enFile, enTitles, enOthers>>

(***************************************************************************)
(* The exit status of the commands                                         *)
(***************************************************************************)

\* a buggy ending: SystemExit is taken for an exit without a code
exit_status_bare(ret) == IF ret.raised /\ ret.exc # "SystemExit" THEN 1 ELSE 0

\* notion_list_records.py 369-374 and the interpreter: main returned, 0;
\* SystemExit(2), 2; an exception the handler catches, sys.exit(1); any other
\* exception, a traceback and status 1
exit_status(ret) ==
    IF ~ret.raised THEN 0
    ELSE IF ret.exc = "SystemExit" THEN 2
    ELSE 1

\* one run of one command: a listing command or the ENEX report
InitCmd ==
    /\ \/ pgInit /\ enIdle
       \/ pgIdle /\ enInit
    /\ uuIdle
    /\ exIdle
    /\ oaIdle

cmdNext ==
    \/ MainStart
    \/ FindIteration
    \/ MainAfterFind
    \/ QueryIteration
    \/ MainAfterQuery
    \/ ListVisibleIteration
    \/ ListAllIteration
    \/ MainAfterListing
    \/ MainResolveId
    \/ SharedHeadStart
    \/ DumpSharedIteration
    \/ SharedHeadAfterDump
    \/ SharedListStart
    \/ SharedListIteration
    \/ EnexOpen
    \/ EnexReport

SpecCmd == InitCmd /\ [][cmdNext]_vars

(***************************************************************************)
(* The exit status of the commands: properties                             *)
(***************************************************************************)

IsPrefix(s, t) == Len(s) <= Len(t) /\ SubSeq(t, 1, Len(s)) = s

Listing == pgArgs.prog = "notion_list_records"

\* the fatal kinds, told from the inputs and from what the service served
MissingConfiguration == pgPc = "exit" /\ ~pgToken

MalformedIdentifier ==
    /\ pgPc = "exit" /\ Listing /\ Mode(pgArgs) = "resolve_id"
    /\ pgArgs.resolve_id = JStr(ShortId)

ResolveWithoutType ==
    /\ pgPc = "exit" /\ Listing /\ Mode(pgArgs) = "resolve_id"
    /\ pgArgs.type = JNull

EmptyDatabaseName ==
    /\ pgPc = "exit" /\ Listing /\ Mode(pgArgs) = "db"
    /\ pgArgs.db_name = JNull
    /\ \A k \in 1..Len(pgInput) : pgInput[k] = " "

LookupNotFound ==
    /\ pgPc = "exit" /\ Listing /\ pgFn = "find_data_source_id_by_name"
    /\ Failures = {}
    /\ Len(pgLog) > 0 /\ LastPageAt(Len(pgLog))
    /\ Candidates = {}

ExpectMismatch ==
    /\ pgPc = "exit" /\ Listing /\ Mode(pgArgs) = "resolve_id"
    /\ pgArgs.expect # JNull
    /\ Len(pgOut) >= 4
    /\ pgOut[4].tag = "Name"
    /\ pgOut[4].parts # <<pgArgs.expect>>

BlankTitle(note) ==
    \/ ~note.has_title
    \/ note.text = JNull
    \/ \A k \in 1..Len(note.text.s) : note.text.s[k] = " "

EmptyTitleFault ==
    /\ enPc = "exit" /\ enFile.exists /\ enFile.wellformed
    /\ enArgs.fail_on_empty_title
    /\ \E k \in 1..Len(enFile.notes) : BlankTitle(enFile.notes[k])

C12_Status ==
    /\ pgPc = "exit" =>
         /\ exit_status(pgRet) = 0 <=> pgRet = Returned(<<>>)
         /\ MissingConfiguration => exit_status(pgRet) # 0
         /\ MalformedIdentifier => exit_status(pgRet) # 0
         /\ ResolveWithoutType => exit_status(pgRet) # 0
         /\ EmptyDatabaseName => exit_status(pgRet) # 0
         /\ LookupNotFound => exit_status(pgRet) # 0
         /\ ExpectMismatch =>
              /\ exit_status(pgRet) # 0
              /\ Len(pgOut) = 6
              /\ pgOut[6] = Line("Match", <<JBool(FALSE)>>)
    /\ enPc = "exit" =>
         /\ enStatus = 0 <=> enFile.exists /\ enFile.wellformed /\ ~EmptyTitleFault
         /\ EmptyTitleFault =>
              /\ enStatus # 0
              /\ Len(enOut) >= 3
              /\ enOut[2] = Line("Total exported notes", <<JNum(Len(enFile.notes))>>)

C12_OutputKept == IsPrefix(pgOut, pgOut') /\ IsPrefix(enOut, enOut')

\* C12: a command exits with status 0 exactly when main ran to its end, and
\* with another status on each fatal kind: NOTION_TOKEN unset, a malformed
\* identifier, no database name, --resolve-id without --type, no data source
\* of the name, an --expect mismatch, and --fail-on-empty-title with an empty
\* title; no step takes back a line already printed, and the lines printed
\* before the fault are in the output at the exit.
C12_ExitStatus == []C12_Status /\ [][C12_OutputKept]_vars

\* --resolve-id with --expect "B" against an object titled "A": the six
\* lines are printed, the status is 2
C12_Witness ==
    /\ ExpectMismatch
    /\ pgArgs.expect = JStr(<<"B">>)
    /\ pgOut[4] = Line("Name", <<JStr(<<"A">>)>>)
    /\ exit_status(pgRet) = 2

\* --fail-on-empty-title --print on an export of a titled and an untitled note
C12_EmptyTitleWitness ==
    /\ EmptyTitleFault
    /\ enArgs.print
    /\ Len(enFile.notes) = 2
    /\ ~BlankTitle(enFile.notes[1])
    /\ Len(enOut) = 5
    /\ enStatus = 1

\* the same export without the flag: status 0
C12_NoFlagWitness ==
    /\ enPc = "exit"
    /\ ~enArgs.fail_on_empty_title
    /\ Len(enFile.notes) = 2
    /\ BlankTitle(enFile.notes[2])
    /\ enStatus = 0

\* the other fatal kinds, each with status 1
C12_FatalKindsWitness ==
    /\ pgPc = "exit"
    /\ exit_status(pgRet) = 1
    /\ \/ MissingConfiguration /\ pgToken = FALSE /\ Listing
       \/ MalformedIdentifier /\ pgToken
       \/ ResolveWithoutType /\ ~MalformedIdentifier /\ pgToken
       \/ EmptyDatabaseName /\ pgToken
       \/ LookupNotFound

(***************************************************************************)
(* evernote_oath_local.py: the OAuth relay                                 *)
(*                                                                         *)
(* The development server runs each request's handler in a thread of its   *)
(* own; the handlers share the token file and the remote service, and      *)
(* interleave at each access to either.  write_text opens the file, which  *)
(* empties it, and then writes: two steps.                                 *)
(***************************************************************************)

MaxReq == 3       \* requests received
MaxTokens == 2    \* temporary credentials the service issues

Token(phase, id, part) == [phase |-> phase, id |-> id, part |-> part]
NoToken == Token("none", 0, "none")

\* the dictionaries the handlers dump into the file
RequestPair(key, secret) ==
    { [k |-> "request_oauth_token", v |-> key],
      [k |-> "request_oauth_token_secret", v |-> secret] }

AccessPair(key, secret) ==
    { [k |-> "access_token", v |-> key],
      [k |-> "access_token_secret", v |-> secret] }

\* the file: absent; empty; text that is no JSON; a JSON object
Missing == [kind |-> "missing", fields |-> {}]
Empty == [kind |-> "empty", fields |-> {}]
Corrupt == [kind |-> "corrupt", fields |-> {}]
Json(fields) == [kind |-> "json", fields |-> fields]
Unread == [kind |-> "unread", fields |-> {}]

\* name in data, data[name]
HasField(fields, name) == \E f \in fields : f.k = name
Field(fields, name) == (CHOOSE f \in fields : f.k = name).v

\* a buggy open: the file is opened without being emptied
OpenForAppending(file) == IF file.kind = "missing" THEN Empty ELSE file

\* open(mode='w') of write_text: the file exists and is empty
OpenForWriting(file) == Empty

\* the write of write_text, through a descriptor opened on an empty file:
\* the text; when another handler wrote in between, the text, or the text
\* followed by the rest of the longer text of the other, which is no JSON
WriteText(file, fields) ==
    IF file.kind = "empty" THEN {Json(fields)} ELSE {Json(fields), Corrupt}

\* a buggy check: the verifier is never found missing
VerifierNeverMissing(v) == FALSE

\* `not oauth_verifier`; 0 is no verifier
VerifierMissing(v) == v = 0

\* json.loads(TOKEN_PATH.read_text()) and the two subscripts, lines 101-103:
\* the exception raised, "" if none
read_fault(file) ==
    CASE file.kind = "missing" -> "FileNotFoundError"
      [] file.kind \in {"empty", "corrupt"} -> "JSONDecodeError"
      [] ~HasField(file.fields, "request_oauth_token") -> "KeyError"
      [] ~HasField(file.fields, "request_oauth_token_secret") -> "KeyError"
      [] OTHER -> ""

\* a service that exchanges a temporary credential any number of times
GrantsAgain(key, secret, verifier) ==
    /\ key = Token("temp", key.id, "key")
    /\ secret = Token("temp", key.id, "secret")
    /\ key.id \in 1..oaIssued
    /\ verifier = key.id

\* the service grants the exchange: the key and the secret are those of a
\* temporary credential it issued and has not exchanged, and the verifier is
\* the one it gave out for this credential
Grants(key, secret, verifier) ==
    /\ key = Token("temp", key.id, "key")
    /\ secret = Token("temp", key.id, "secret")
    /\ key.id \in (1..oaIssued) \ oaConsumed
    /\ verifier = key.id

\* a request as it arrives
NewRequest(kind, pc, verifier) ==
    [kind |-> kind, pc |-> pc, verifier |-> verifier,
     key |-> NoToken, secret |-> NoToken,   \* oauth_token.. (start), req_token.. (callback)
     access |-> 0,                          \* the credential fetch_access_token returned
     status |-> 0, fault |-> "",            \* the response; the exception behind a 500
     read |-> Unread,                       \* history: the file as the callback read it
     used |-> NoToken,                      \* history: the key presented for the exchange
     exchanged |-> FALSE,                   \* history: fetch_access_token was called
     wrote |-> FALSE,                       \* history: the handler opened the file to write
     overlapped |-> FALSE]                  \* history: another wrote between open and write

\* the handler ends with an unhandled exception: status 500
Faulted(r, exc) == [r EXCEPT !.pc = "done", !.status = 500, !.fault = exc]

oaInit ==
    /\ oaEnv \in BOOLEAN
    /\ \E f \in {"missing", "corrupt", "request", "access"} :
         /\ oaFile = CASE f = "missing" -> Missing
                       [] f = "corrupt" -> Corrupt
                       [] f = "request" ->
                            Json(RequestPair(Token("temp", 1, "key"), Token("temp", 1, "secret")))
                       [] OTHER ->
                            Json(AccessPair(Token("access", 1, "key"), Token("access", 1, "secret")))
         /\ oaIssued = IF f \in {"request", "access"} THEN 1 ELSE 0
         /\ oaConsumed = IF f = "access" THEN {1} ELSE {}
    /\ oaReq = <<>>
    /\ oaWriter = 0

\* a browser requests "/"
ArriveStart ==
    /\ Len(oaReq) < MaxReq
    /\ oaReq' = Append(oaReq, NewRequest("start", "fetch", 0))
    /\ UNCHANGED <<oaEnv, oaFile, oaIssued, oaConsumed, oaWriter, oaOthers>>

\* a browser requests "/callback", with a verifier or without
ArriveCallback ==
    /\ Len(oaReq) < MaxReq
    /\ \E v \in 0..MaxTokens :
         oaReq' = Append(oaReq, NewRequest("callback", "read", v))
    /\ UNCHANGED <<oaEnv, oaFile, oaIssued, oaConsumed, oaWriter, oaOthers>>

\* start, lines 71-79: the session and the temporary credential
StartFetch ==
  \E i \in 1..Len(oaReq) :
    /\ oaReq[i].kind = "start"
    /\ oaReq[i].pc = "fetch"
    /\ IF ~oaEnv
       THEN /\ oaReq' = [oaReq EXCEPT ![i] = Faulted(@, "RuntimeError")]
            /\ UNCHANGED oaIssued
       ELSE \/ /\ oaIssued < MaxTokens
               /\ oaIssued' = oaIssued + 1
               /\ oaReq' = [oaReq EXCEPT ![i].pc = "open",
                                         ![i].key = Token("temp", oaIssued + 1, "key"),
                                         ![i].secret = Token("temp", oaIssued + 1, "secret")]
            \/ /\ oaReq' = [oaReq EXCEPT ![i] = Faulted(@, "TokenRequestDenied")]
               /\ UNCHANGED oaIssued
    /\ UNCHANGED <<oaEnv, oaFile, oaConsumed, oaWriter, oaOthers>>

\* start, lines 82-83: mkdir and the open of write_text
StartOpen ==
  \E i \in 1..Len(oaReq) :
    /\ oaReq[i].kind = "start"
    /\ oaReq[i].pc = "open"
    /\ oaFile' = OpenForWriting(oaFile)
    /\ oaReq' = [oaReq EXCEPT ![i].pc = "write", ![i].wrote = TRUE, ![i].overlapped = FALSE]
    /\ UNCHANGED <<oaEnv, oaIssued, oaConsumed, oaWriter, oaOthers>>

\* the requests after the write of the i-th, which ends with the status
AfterWrite(i, status) ==
    [j \in 1..Len(oaReq) |->
       IF j = i THEN [oaReq[j] EXCEPT !.pc = "done", !.status = status]
       ELSE IF oaReq[j].pc = "write" THEN [oaReq[j] EXCEPT !.overlapped = TRUE]
       ELSE oaReq[j]]

\* start, lines 83-88: the write of write_text, the redirect
StartWrite ==
  \E i \in 1..Len(oaReq) :
    /\ oaReq[i].kind = "start"
    /\ oaReq[i].pc = "write"
    /\ oaFile' \in WriteText(oaFile, RequestPair(oaReq[i].key, oaReq[i].secret))
    /\ oaWriter' = i
    /\ oaReq' = AfterWrite(i, 302)
    /\ UNCHANGED <<oaEnv, oaIssued, oaConsumed, oaOthers>>

\* callback, lines 101-108: the file is read and indexed, then the verifier
\* is looked at
CallbackRead ==
  \E i \in 1..Len(oaReq) :
    /\ oaReq[i].kind = "callback"
    /\ oaReq[i].pc = "read"
    /\ LET r == [oaReq[i] EXCEPT !.read = oaFile]
       IN  oaReq' = [oaReq EXCEPT ![i] =
             IF read_fault(oaFile) # "" THEN Faulted(r, read_fault(oaFile))
             ELSE IF VerifierMissing(r.verifier)
             THEN [r EXCEPT !.pc = "done", !.status = 400,
                            !.key = Field(oaFile.fields, "request_oauth_token"),
                            !.secret = Field(oaFile.fields, "request_oauth_token_secret")]
             ELSE [r EXCEPT !.pc = "exchange",
                            !.key = Field(oaFile.fields, "request_oauth_token"),
                            !.secret = Field(oaFile.fields, "request_oauth_token_secret")]]
    /\ UNCHANGED <<oaEnv, oaFile, oaIssued, oaConsumed, oaWriter, oaOthers>>

\* callback, lines 111-115: the session and the exchange
CallbackExchange ==
  \E i \in 1..Len(oaReq) :
    /\ oaReq[i].kind = "callback"
    /\ oaReq[i].pc = "exchange"
    /\ IF ~oaEnv
       THEN /\ oaReq' = [oaReq EXCEPT ![i] = Faulted(@, "RuntimeError")]
            /\ UNCHANGED oaConsumed
       ELSE LET r == [oaReq[i] EXCEPT !.exchanged = TRUE, !.used = oaReq[i].key]
            IN  \/ /\ Grants(r.key, r.secret, r.verifier)
                   /\ oaConsumed' = oaConsumed \cup {r.key.id}
                   /\ oaReq' = [oaReq EXCEPT ![i] = [r EXCEPT !.pc = "open", !.access = r.key.id]]
                \/ /\ oaReq' = [oaReq EXCEPT ![i] = Faulted(r, "TokenRequestDenied")]
                   /\ UNCHANGED oaConsumed
    /\ UNCHANGED <<oaEnv, oaFile, oaIssued, oaWriter, oaOthers>>

\* callback, line 118: the open of write_text
CallbackOpen ==
  \E i \in 1..Len(oaReq) :
    /\ oaReq[i].kind = "callback"
    /\ oaReq[i].pc = "open"
    /\ oaFile' = OpenForWriting(oaFile)
    /\ oaReq' = [oaReq EXCEPT ![i].pc = "write", ![i].wrote = TRUE, ![i].overlapped = FALSE]
    /\ UNCHANGED <<oaEnv, oaIssued, oaConsumed, oaWriter, oaOthers>>

\* callback, lines 118-127: the write of write_text, the confirmation
CallbackWrite ==
  \E i \in 1..Len(oaReq) :
    /\ oaReq[i].kind = "callback"
    /\ oaReq[i].pc = "write"
    /\ oaFile' \in WriteText(oaFile, AccessPair(Token("access", oaReq[i].access, "key"),
                                                Token("access", oaReq[i].access, "secret")))
    /\ oaWriter' = i
    /\ oaReq' = AfterWrite(i, 200)
    /\ UNCHANGED <<oaEnv, oaIssued, oaConsumed, oaOthers>>

oaNext ==
    \/ ArriveStart
    \/ ArriveCallback
    \/ StartFetch
    \/ StartOpen
    \/ StartWrite
    \/ CallbackRead
    \/ CallbackExchange
    \/ CallbackOpen
    \/ CallbackWrite

InitOAuth == oaInit /\ uuIdle /\ exIdle /\ pgIdle /\ enIdle

SpecOAuth == InitOAuth /\ [][oaNext]_vars

(***************************************************************************)
(* The OAuth relay: properties                                             *)
(***************************************************************************)

Requests == 1..Len(oaReq)

\* the file holds a request-phase pair, an access-phase pair
HoldsRequestPair(file) ==
    /\ file.kind = "json"
    /\ {f.k : f \in file.fields} = {"request_oauth_token", "request_oauth_token_secret"}

HoldsAccessPair(file) ==
    /\ file.kind = "json"
    /\ {f.k : f \in file.fields} = {"access_token", "access_token_secret"}

\* the request is a callback that came without a verifier
NoVerifier(i) == oaReq[i].kind = "callback" /\ oaReq[i].verifier = 0

\* the handler of the request never touched the service or the file
LeftAlone(i) ==
    /\ ~oaReq[i].exchanged
    /\ oaReq[i].used = NoToken
    /\ ~oaReq[i].wrote
    /\ oaWriter # i
    /\ oaReq[i].pc \in {"read", "done"}

\* C7 as stated: a callback without a verifier is answered 400, exchanges
\* nothing and does not write the file, whatever the file holds.
C7_NoVerifierIs400 ==
    \A i \in Requests :
      NoVerifier(i) =>
        /\ LeftAlone(i)
        /\ oaReq[i].pc = "done" => oaReq[i].status = 400

\* C7, amended: a callback without a verifier exchanges nothing and does
\* not write the file, whatever the file holds; it is answered 400 when the
\* file it read held a request-phase pair; when the file was missing, empty,
\* no JSON, or held an access-phase pair, the read faults first and the
\* answer is 500.
C7_NoVerifierIs400OnRequestPair ==
    \A i \in Requests :
      NoVerifier(i) =>
        /\ LeftAlone(i)
        /\ oaReq[i].pc = "done" =>
             /\ oaReq[i].read # Unread
             /\ oaReq[i].status = (IF HoldsRequestPair(oaReq[i].read) THEN 400 ELSE 500)
             /\ oaReq[i].fault =
                  (CASE HoldsRequestPair(oaReq[i].read) -> ""
                     [] oaReq[i].read.kind = "missing" -> "FileNotFoundError"
                     [] oaReq[i].read.kind = "json" -> "KeyError"
                     [] OTHER -> "JSONDecodeError")

\* a callback without a verifier was answered 400; the pair it read is
\* still in the file
C7_Witness ==
    \E i \in Requests :
      /\ NoVerifier(i)
      /\ oaReq[i].pc = "done"
      /\ oaReq[i].status = 400
      /\ HoldsRequestPair(oaReq[i].read)
      /\ oaFile = oaReq[i].read

\* a callback without a verifier met an access-phase pair: 500, file as read
C7_FaultWitness ==
    \E i \in Requests :
      /\ NoVerifier(i)
      /\ oaReq[i].pc = "done"
      /\ oaReq[i].status = 500
      /\ HoldsAccessPair(oaReq[i].read)
      /\ oaFile = oaReq[i].read

\* what the handler of a request writes into the file
TextOf(r) ==
    IF r.kind = "start" THEN RequestPair(r.key, r.secret)
    ELSE AccessPair(Token("access", r.access, "key"), Token("access", r.access, "secret"))

\* C8: the token file is last-write-wins, without locking.  Once a handler
\* has written, the file holds the pair of the handler that wrote last and
\* nothing else: the pair of an earlier attempt is gone, nothing is
\* appended, and after a callback that succeeded it is the access pair
\* alone (the text is no JSON only when another handler wrote between the
\* open and the write of the last writer; the file is empty while a handler
\* is between its open and its write).  A callback presents for the exchange
\* the key it read from the file, whichever attempt its verifier belongs to.
C8_LastWriteWins ==
    /\ oaWriter # 0 =>
         /\ oaFile.kind \in {"json", "corrupt", "empty"}
         /\ oaFile.kind = "json" => oaFile.fields = TextOf(oaReq[oaWriter])
         /\ oaFile.kind = "corrupt" => oaReq[oaWriter].overlapped
         /\ oaFile.kind = "empty" => \E j \in Requests : oaReq[j].pc = "write"
         /\ oaReq[oaWriter].status = (IF oaReq[oaWriter].kind = "start" THEN 302 ELSE 200)
    /\ \A i \in Requests :
         /\ oaReq[i].status = 200 => oaReq[i].exchanged /\ oaReq[i].access = oaReq[i].used.id
         /\ oaReq[i].exchanged =>
              /\ HoldsRequestPair(oaReq[i].read)
              /\ oaReq[i].used = Field(oaReq[i].read.fields, "request_oauth_token")

\* initiate(A), initiate(B), callback(A): the file holds the pair of B
\* alone, and the callback that carries the verifier of A presented the key
\* of B
C8_Witness ==
    /\ Len(oaReq) = 3
    /\ oaReq[1].kind = "start" /\ oaReq[1].status = 302
    /\ oaReq[2].kind = "start" /\ oaReq[2].status = 302
    /\ oaReq[3].kind = "callback" /\ oaReq[3].verifier = oaReq[1].key.id
    /\ oaReq[1].key # oaReq[2].key
    /\ oaReq[3].exchanged
    /\ oaReq[3].used = oaReq[2].key
    /\ oaReq[3].pc = "done"
    /\ oaWriter = 2
    /\ oaFile = Json(RequestPair(oaReq[2].key, oaReq[2].secret))

\* a callback succeeded and the file holds its access pair alone
C8_AccessWitness ==
    /\ oaWriter # 0
    /\ oaReq[oaWriter].kind = "callback"
    /\ oaReq[oaWriter].status = 200
    /\ \E j \in Requests : oaReq[j].kind = "start" /\ oaReq[j].key = oaReq[oaWriter].used
    /\ oaFile = Json(AccessPair(Token("access", oaReq[oaWriter].access, "key"),
                                Token("access", oaReq[oaWriter].access, "secret")))

\* the callback found, at its read, an access-phase pair or no file
Replayed(i) ==
    /\ oaReq[i].kind = "callback"
    /\ oaReq[i].read # Unread
    /\ HoldsAccessPair(oaReq[i].read) \/ oaReq[i].read.kind = "missing"

\* the callback went through: the service granted the exchange
Granted(i) == oaReq[i].kind = "callback" /\ oaReq[i].access # 0

C13_Faults ==
    \A i \in Requests :
      Replayed(i) =>
        /\ oaReq[i].pc = "done"
        /\ oaReq[i].status = 500
        /\ oaReq[i].fault =
             (IF oaReq[i].read.kind = "missing" THEN "FileNotFoundError" ELSE "KeyError")
        /\ LeftAlone(i)

C13_OncePerInitiate ==
    \A i, j \in Requests :
      (Granted(i) /\ Granted(j) /\ oaReq[i].access = oaReq[j].access) => i = j

C13_OnlyThroughCallback ==
    (oaFile' # oaFile /\ HoldsAccessPair(oaFile')) =>
      \E i \in Requests :
        /\ oaWriter' = i
        /\ oaReq[i].kind = "callback"
        /\ HoldsRequestPair(oaReq[i].read)
        /\ oaReq[i].verifier # 0
        /\ oaReq[i].exchanged
        /\ Granted(i)
        /\ oaReq[i].access = oaReq[i].used.id
        /\ oaReq[i].used = Field(oaReq[i].read.fields, "request_oauth_token")
        /\ oaFile' = Json(TextOf(oaReq[i]))
        /\ oaReq'[i].status = 200

C13_RaceWitness ==
    \E i, j \in Requests :
      /\ i # j
      /\ Granted(i) /\ oaReq[i].status = 200
      /\ oaReq[j].kind = "callback" /\ oaReq[j].read = oaReq[i].read
      /\ oaReq[j].exchanged /\ oaReq[j].fault = "TokenRequestDenied"

\* a callback met no file
C13_MissingWitness ==
    \E i \in Requests :
      /\ Replayed(i) /\ oaReq[i].read = Missing /\ oaReq[i].verifier # 0
      /\ oaReq[i].status = 500
      /\ oaFile = Missing

====
